---- MODULE Spec2Model ----
(***************************************************************************)
(* A model of the orchestration core of glauka: the layer scheduler of     *)
(* core/recon.py, the retrying HttpClient of core/http_client.py, the      *)
(* emission channel of core/models.py and the snapshot store of            *)
(* state_manager.py.  Each component has its own specification over the    *)
(* shared list of variables; the variables of the other components stay    *)
(* at their idle values.                                                   *)
(***************************************************************************)
EXTENDS Integers, Sequences, FiniteSets, TLC

VARIABLES
    \* ---- scheduler (core/recon.py)
    modules,      \* the module chain: sequence of [name, enabled, depends_on]
    layers,       \* result of _resolve_module_layers: sequence of sequences of names
    fallbackLogged, \* the "original order fallback" line was logged
    schedPc,      \* "held" | "init" | "loop" | "gather" | "done" | "aborted"
    layerIdx,     \* index of the layer _execute_layers is gathering
    task,         \* name -> "none" | "created" | "running" | "finished"
    runCalls,     \* name -> number of times module.run was invoked
    raised,       \* names whose module.run raised
    errors,       \* the errors list of _execute_layers
    timings,      \* ctx.timings: name -> "none" | "zero" | "measured"
    extraErrors,  \* ctx.extra["module_errors"], or <<>> when the key is absent
    \* ---- HttpClient.request (core/http_client.py)
    hDefault,     \* self.max_retries
    hThrottle,    \* self.throttle_on_429
    hOverride,    \* req.max_retries: <<>> is None, <<n>> is n
    hPc,          \* "idle" | "send" | "sleep" | "done"
    hAttempts,    \* attempts
    hAttempt,     \* the loop variable attempt
    hLastExc,     \* last_exc: <<>> is None, <<k>> the failure of attempt k
    hOutcomes,    \* what each _send_once did: [kind |-> "exc" | "resp", status]
    hSleeps,      \* the delays slept: [attempt, kind |-> "backoff" | "retry_after"]
    hResult,      \* [kind |-> "none" | "return" | "raise", status, exc]
    \* ---- ReconContext.emit (core/models.py)
    eObserver,    \* self.progress_cb is set
    eEventPath,   \* self.event_path is set
    seen,         \* self._progress_seen, as the set of <<cat, value>> it holds
    eventLog,     \* the records appended to the event sink file
    writeAttempts, \* the records emit tried to append (a write may raise)
    observed,     \* the calls progress_cb received
    delivered,    \* the calls progress_cb returned from (a call may raise)
    emitCalls,    \* <<category, value>> -> number of emit calls made with it
    ePc,          \* thread -> "idle" | "checked" (between the test and the add)
                  \* | "raised" (emit raised to its caller)
    eArg,         \* thread -> the [category, value] its emit call is handling
    \* ---- save_state / load_state (state_manager.py)
    sPydantic,    \* _HAS_PYDANTIC: the optional dependency was importable
    sCtx,         \* the state dict save_state builds from the context
    sFile,        \* the file at the state path: [st, bytes]
    sFresh,       \* the file is the one save_state wrote, untouched since
    sLoad,        \* the last load_state call: [kind, value, exc, file, fresh]
    sWriter,      \* p.write_bytes: "idle" | "open" | "partial" | "killed"
    sPrev,        \* the file as it was before write_bytes opened it
    \* ---- DecisionEngine.evaluate (core/decision_engine.py)
    dResult,      \* probe_result: [status_code, content_length, technologies]
    dTasks,       \* the list evaluate returned for it
    dPc,          \* "idle" | "evaluated"
    \* ---- run_task_queue (apps/recon.py)
    qSeeds,       \* initial_targets
    queue,        \* queue
    qSeen,        \* seen
    qPc,          \* "start" | "loop" | "tasks" | "done"
    qTarget,      \* target, <<>> before the first pop
    qTasks,       \* the tasks of the current target still to execute
    newEndpoints, \* ctx.new_endpoints
    qProbed,      \* the targets given to probe.probe_url, in order
    qPlaced,      \* every target put in the queue, in the order it was put
    qReported,    \* [by, ep]: a task for target by had ep appended to the queue
    qLast,        \* [task_type, handler, outcome]: the last await made for target
    \* ---- quick_port_scan_async (core/ports.py)
    pPorts,       \* ports
    pMaxConcurrent, \* max_concurrent
    pOnFound,     \* on_found: "none" | "returns" | "raises"
    pPc,          \* "start" | "gather" | "done"
    pSem,         \* the value of the semaphore
    pTask,        \* per requested port: "waiting" | "connecting" | "done"
    pOutcome,     \* per requested port: what its connect did, "none" before
    pResults,     \* per requested port: what _scan_single returned
    pOpenPorts,   \* open_ports, as the set of its <<port, service>> items
    \* ---- run_full_recon (core/recon.py, core/target.py)
    rTarget,      \* target: [name, chars], a host name or a numeric text
    rDns,         \* what socket.gethostbyname answers for a name: <<>> is OSError
    rAllowInternal, \* config["safety"]["allow_internal"]
    rResume,      \* resume
    rPc,          \* "idle" | "start" | "scope" | "running" | "done"
    rScope,       \* scope: [host, ip]
    rOutcome,     \* [kind |-> "none" | "return" | "raise", from, exc]
    \* ---- HttpClient._compute_backoff, _retry_after_delay (core/http_client.py)
    bAttempt,     \* attempt
    bFactor,      \* backoff_factor, in tenths of a second
    bJitter,      \* jitter, in tenths of a second
    bHeaders,     \* headers: <<>> or <<[name, value]>>, the Retry-After line
    bCall,        \* "none" | "backoff" | "retry_after": the function called
    bDelay,       \* the delay it returned, in tenths of a second
    \* ---- run_batch_scan (core/ports.py)
    wHosts,       \* subdomains
    wOpen,        \* the <<host, port>> pairs on which a connection opens
    wOnFound,     \* on_found: "none" | "returns" | "raises"
    wPc,          \* "start" | "loop" | "done"
    wProbed,      \* the <<host, port>> pairs check_port was called on
    wResults,     \* results: one [host, open_ports] per host
    wIdx,         \* the position of the for loop in results
    wPortMap,     \* port_map, as the set of its [host, ports] items
    wUrls,        \* urls
    wOutcome,     \* "none" | "return" | "raise"
    \* ---- the units of one layer writing to the ReconContext (core/recon.py)
    cPlan,        \* per unit: the writes its run makes and whether it then raises
    cStep,        \* per unit: the number of writes made so far
    cDone,        \* the units whose _run_module has finished
    cFindings,    \* ctx.findings
    cNucleiRaw,   \* ctx.nuclei_raw
    cErrors,      \* errors of _execute_layers
    cExtra,       \* ctx.extra, as the set of its [key, value] items
    cTimings,     \* the keys of ctx.timings
    cPc,          \* "idle" | "gather" | "done"
    \* ---- run_full_recon over the default module chain (core/recon.py, modules/)
    fEnv,         \* what the target and the host machine answer during the run
    fCtx,         \* the accumulators of the ReconContext
    fLayer,       \* index of the layer _execute_layers is gathering
    fDone,        \* names of the units whose _run_module call has finished
    fErrors,      \* the errors list of _execute_layers
    fPc,          \* "layers" | "saved" | "loaded"
    fFile,        \* the file at state_path
    fLoad         \* what load_state returned for that file

schedVars == <<modules, layers, fallbackLogged, schedPc, layerIdx, task,
               runCalls, raised, errors, timings, extraErrors>>

httpVars == <<hDefault, hThrottle, hOverride, hPc, hAttempts, hAttempt, hLastExc,
              hOutcomes, hSleeps, hResult>>

emitVars == <<eObserver, eEventPath, seen, eventLog, writeAttempts, observed,
              delivered, emitCalls, ePc, eArg>>

snapVars == <<sPydantic, sCtx, sFile, sFresh, sLoad, sWriter, sPrev>>

decideVars == <<dResult, dTasks, dPc>>

queueVars == <<qSeeds, queue, qSeen, qPc, qTarget, qTasks, newEndpoints, qProbed,
               qPlaced, qReported, qLast>>

portVars == <<pPorts, pMaxConcurrent, pOnFound, pPc, pSem, pTask, pOutcome, pResults,
              pOpenPorts>>

reconVars == <<rTarget, rDns, rAllowInternal, rResume, rPc, rScope, rOutcome>>

backoffVars == <<bAttempt, bFactor, bJitter, bHeaders, bCall, bDelay>>

webVars == <<wHosts, wOpen, wOnFound, wPc, wProbed, wResults, wIdx, wPortMap, wUrls,
             wOutcome>>

layerVars == <<cPlan, cStep, cDone, cFindings, cNucleiRaw, cErrors, cExtra, cTimings, cPc>>

chainVars == <<fEnv, fCtx, fLayer, fDone, fErrors, fPc, fFile, fLoad>>

vars == <<schedVars, httpVars, emitVars, snapVars, decideVars, queueVars, portVars,
          reconVars, backoffVars, webVars,
          layerVars,
          chainVars>>

\* what the actions of one component leave alone
nonSchedVars == <<httpVars, emitVars, snapVars, decideVars, queueVars, portVars,
    reconVars, backoffVars, webVars,
    layerVars,
    chainVars>>
nonHttpVars == <<schedVars, emitVars, snapVars, decideVars, queueVars, portVars,
    reconVars, backoffVars, webVars,
    layerVars,
    chainVars>>
nonEmitVars == <<schedVars, httpVars, snapVars, decideVars, queueVars, portVars,
    reconVars, backoffVars, webVars,
    layerVars,
    chainVars>>
nonSnapVars == <<schedVars, httpVars, emitVars, decideVars, queueVars, portVars,
    reconVars, backoffVars, webVars,
    layerVars,
    chainVars>>
nonDecideVars == <<schedVars, httpVars, emitVars, snapVars, queueVars, portVars,
    reconVars, backoffVars, webVars,
    layerVars,
    chainVars>>
nonQueueVars == <<schedVars, httpVars, emitVars, snapVars, decideVars, portVars,
    reconVars, backoffVars, webVars,
    layerVars,
    chainVars>>
nonPortVars == <<schedVars, httpVars, emitVars, snapVars, decideVars, queueVars,
    reconVars, backoffVars, webVars,
    layerVars,
    chainVars>>
nonBackoffVars == <<schedVars, httpVars, emitVars, snapVars, decideVars, queueVars, portVars,
    reconVars, webVars,
    layerVars,
    chainVars>>
nonWebVars == <<schedVars, httpVars, emitVars, snapVars, decideVars, queueVars, portVars,
    reconVars, backoffVars,
    layerVars,
    chainVars>>
nonLayerVars == <<schedVars, httpVars, emitVars, snapVars, decideVars, queueVars, portVars, reconVars, backoffVars, webVars,
    chainVars>>
nonChainVars == <<schedVars, httpVars, emitVars, snapVars, decideVars, queueVars, portVars, reconVars, backoffVars, webVars, layerVars>>
nonReconVars == <<httpVars, emitVars, decideVars, queueVars, portVars, backoffVars, webVars,
    layerVars,
    chainVars>>

(***************************************************************************)
(* Bounds of the model.                                                    *)
(***************************************************************************)
MaxEdges == 3        \* depends_on entries in a whole chain (pure resolution)
RunMaxEdges == 2     \* depends_on entries in a whole chain (executed chains)
MaxDisabled == 1     \* disabled units in a chain
MaxRetries == 3      \* largest max_retries a client or a request is given
MaxEmits == 3        \* emit calls made on one context
MaxListLen == 1      \* entries of each list accumulator of a saved context
MaxTechs == 2        \* technology tags of a probe result
MaxSeeds == 2        \* targets in the seed list of run_task_queue
MaxFound == 2        \* endpoints one fuzzing task reports
MaxPorts == 3        \* ports one quick_port_scan_async call is asked to scan
MaxConcurrent == 2   \* largest max_concurrent a scan is given
ReconMaxEdges == 1   \* depends_on entries in the chain of a whole run_full_recon
MaxFactor == 2       \* largest backoff_factor, in tenths of a second
MaxJitter == 2       \* largest jitter, in tenths of a second

\* The module chain's unit names, unique, in declaration order, and a name no
\* unit of the chain carries.
UnitNamePool == <<"u1", "u2", "u3">>
AbsentName == "ghost"
NumUnits == Len(UnitNamePool)

UnitName(i) == UnitNamePool[i]
ChainNames == {UnitName(i) : i \in 1..NumUnits}
DepNames == ChainNames \cup {AbsentName}

Range(s) == {s[i] : i \in 1..Len(s)}
InSeq(x, s) == \E i \in 1..Len(s) : s[i] = x

SeqsOfLen(S, n) == [1..n -> S]
SeqsUpTo(S, n) == UNION {SeqsOfLen(S, k) : k \in 0..n}

\* The unit descriptors at position i with exactly k depends_on entries.
UnitsAt(i, k, en) ==
    {[name |-> UnitName(i), enabled |-> en, depends_on |-> deps] :
        deps \in SeqsOfLen(DepNames, k)}

\* Every chain of NumUnits uniquely named units, from position i on, with at
\* most e depends_on entries and at most d disabled units.
RECURSIVE ChainsFrom(_, _, _)
ChainsFrom(i, e, d) ==
    IF i > NumUnits THEN {<<>>}
    ELSE UNION {
            {<<u>> \o rest : u \in UnitsAt(i, kd[1], kd[2] = 0),
                             rest \in ChainsFrom(i + 1, e - kd[1], d - kd[2])}
            : kd \in (0..e) \X (IF d > 0 THEN {0, 1} ELSE {0})}

(***************************************************************************)
(* _resolve_module_layers                                                  *)
(***************************************************************************)
\* active = {m.name: m for m in modules if enabled}: the keys, in insertion order
ActiveNames(mods) ==
    LET en == SelectSeq(mods, LAMBDA m : m.enabled)
    IN  [i \in 1..Len(en) |-> en[i].name]

ModuleNamed(mods, n) == CHOOSE m \in Range(mods) : m.name = n

\* a deps_map that keeps the dependencies missing from active
DepsMapKeepsMissing(mods) ==
    [n \in Range(ActiveNames(mods)) |-> ModuleNamed(mods, n).depends_on]

\* deps_map[name] = [d for d in deps if d in active]
DepsMap(mods) ==
    LET active == ActiveNames(mods)
    IN  [n \in Range(active) |->
            SelectSeq(ModuleNamed(mods, n).depends_on, LAMBDA d : InSeq(d, active))]

\* graph[dep].append(name) for name, deps in deps_map.items() for dep in deps
\* a graph that lists a dependent once however often it names the dependency
RECURSIVE GraphEdgesOnce(_, _, _, _)
GraphEdgesOnce(active, dm, dep, i) ==
    IF i > Len(active) THEN <<>>
    ELSE (IF InSeq(dep, dm[active[i]]) THEN <<active[i]>> ELSE <<>>)
         \o GraphEdgesOnce(active, dm, dep, i + 1)

RECURSIVE GraphEdges(_, _, _, _)
GraphEdges(active, dm, dep, i) ==
    IF i > Len(active) THEN <<>>
    ELSE LET hits == SelectSeq(dm[active[i]], LAMBDA d : d = dep)
         IN  [j \in 1..Len(hits) |-> active[i]] \o GraphEdges(active, dm, dep, i + 1)

Graph(mods) ==
    LET active == ActiveNames(mods)
        dm == DepsMap(mods)
    IN  [dep \in Range(active) |-> GraphEdges(active, dm, dep, 1)]

\* for dep in graph.get(name, []): indegree[dep] -= 1; if 0: next_ready.append(dep)
RECURSIVE RelaxDependentsBroken(_, _, _, _)
RelaxDependentsBroken(out, k, indegree, next_ready) ==
    IF k > Len(out) THEN [indegree |-> indegree, next_ready |-> next_ready]
    ELSE LET dep == out[k]
             deg == indegree[dep] - 1
         IN  RelaxDependentsBroken(out, k + 1, [indegree EXCEPT ![dep] = deg],
                                   Append(next_ready, dep))

RECURSIVE RelaxDependents(_, _, _, _)
RelaxDependents(out, k, indegree, next_ready) ==
    IF k > Len(out) THEN [indegree |-> indegree, next_ready |-> next_ready]
    ELSE LET dep == out[k]
             deg == indegree[dep] - 1
         IN  RelaxDependents(out, k + 1, [indegree EXCEPT ![dep] = deg],
                             IF deg = 0 THEN Append(next_ready, dep) ELSE next_ready)

\* the body of "for name in ready": st = [visited, indegree, current_layer, next_ready]
RECURSIVE ScanReady(_, _, _, _)
ScanReady(g, ready, i, st) ==
    IF i > Len(ready) THEN st
    ELSE LET name == ready[i]
         IN  IF name \in st.visited THEN ScanReady(g, ready, i + 1, st)
             ELSE LET r == RelaxDependents(g[name], 1, st.indegree, st.next_ready)
                  IN  ScanReady(g, ready, i + 1,
                                [visited |-> st.visited \cup {name},
                                 indegree |-> r.indegree,
                                 current_layer |-> Append(st.current_layer, name),
                                 next_ready |-> r.next_ready])

\* while ready: ...
RECURSIVE KahnLoop(_, _, _, _, _)
KahnLoop(g, ready, visited, indegree, acc) ==
    IF ready = <<>> THEN [visited |-> visited, layers |-> acc]
    ELSE LET st == ScanReady(g, ready, 1,
                             [visited |-> visited, indegree |-> indegree,
                              current_layer |-> <<>>, next_ready |-> <<>>])
         IN  KahnLoop(g, st.next_ready, st.visited, st.indegree,
                      IF st.current_layer # <<>> THEN Append(acc, st.current_layer)
                      ELSE acc)

Kahn(mods) ==
    LET active == ActiveNames(mods)
        dm == DepsMap(mods)
        indegree == [n \in Range(active) |-> Len(dm[n])]
        ready == SelectSeq(active, LAMBDA n : indegree[n] = 0)
    IN  KahnLoop(Graph(mods), ready, {}, indegree, <<>>)

\* [[m] for m in modules if enabled]
OriginalOrderFallback(mods) ==
    LET active == ActiveNames(mods)
    IN  [i \in 1..Len(active) |-> <<active[i]>>]

\* if len(visited) != len(active)
UsesFallback(mods) == Cardinality(Kahn(mods).visited) # Len(ActiveNames(mods))

ResolveNoFallback(mods) == Kahn(mods).layers

ResolveModuleLayers(mods) ==
    IF UsesFallback(mods) THEN OriginalOrderFallback(mods) ELSE Kahn(mods).layers

(***************************************************************************)
(* HttpClient.request                                                      *)
(***************************************************************************)
NoValue == <<>>                  \* None
Some(x) == <<x>>
Statuses == {200, 404, 429, 500, 503}

NoResult == [kind |-> "none", status |-> 0, exc |-> 0]
Returned(status) == [kind |-> "return", status |-> status, exc |-> 0]
\* raise last_exc: the failure of attempt k; exc 0 is the RuntimeError
\* "HTTP request failed with no response"
Raised(k) == [kind |-> "raise", status |-> 0, exc |-> k]

Max(a, b) == IF a >= b THEN a ELSE b

\* a: req.max_retries or self.max_retries (0 and None are falsy)
OrElse(a, b) == IF a = NoValue \/ a = Some(0) THEN b ELSE a[1]

\* attempts = max(1, req.max_retries or self.max_retries)
Attempts(override, default) == Max(1, OrElse(override, default))

HttpIdle ==
    /\ hDefault = 0
    /\ hThrottle = FALSE
    /\ hOverride = NoValue
    /\ hPc = "idle"
    /\ hAttempts = 0
    /\ hAttempt = 0
    /\ hLastExc = NoValue
    /\ hOutcomes = <<>>
    /\ hSleeps = <<>>
    /\ hResult = NoResult

\* request(req), up to the first await
RequestBegin ==
    /\ hPc = "idle"
    /\ hAttempts' = Attempts(hOverride, hDefault)
    /\ hAttempt' = 1
    /\ hLastExc' = NoValue
    /\ hPc' = "send"
    /\ UNCHANGED <<nonHttpVars, hDefault, hThrottle, hOverride, hOutcomes, hSleeps, hResult>>

\* the end of the for loop: if last_exc: raise last_exc; raise RuntimeError
LoopExit(lastExc) == IF lastExc # NoValue THEN Raised(lastExc[1]) ELSE Raised(0)

\* await asyncio.to_thread(self._send_once, ...) raises: except Exception
SendFails ==
    /\ hPc = "send"
    /\ hOutcomes' = Append(hOutcomes, [kind |-> "exc", status |-> 0])
    /\ hLastExc' = Some(hAttempt)
    /\ IF hAttempt < hAttempts
       THEN /\ hPc' = "sleep"
            /\ hSleeps' = Append(hSleeps, [attempt |-> hAttempt, kind |-> "backoff"])
            /\ UNCHANGED hResult
       ELSE /\ hPc' = "done"
            /\ hResult' = LoopExit(Some(hAttempt))
            /\ UNCHANGED hSleeps
    /\ UNCHANGED <<nonHttpVars, hDefault, hThrottle, hOverride, hAttempts, hAttempt>>

\* a request that returns every response at once, a 5xx included
SendRespondsNo5xxRetry(s) ==
    /\ hPc = "send"
    /\ hOutcomes' = Append(hOutcomes, [kind |-> "resp", status |-> s])
    /\ IF s = 429 /\ hThrottle
       THEN /\ hPc' = "sleep"
            /\ hSleeps' = Append(hSleeps, [attempt |-> hAttempt, kind |-> "retry_after"])
            /\ UNCHANGED hResult
       ELSE /\ hPc' = "done"
            /\ hResult' = Returned(s)
            /\ UNCHANGED hSleeps
    /\ UNCHANGED <<nonHttpVars, hDefault, hThrottle, hOverride, hAttempts, hAttempt, hLastExc>>

\* a request without the throttling branch: a 429 is returned at once
SendRespondsNoThrottle(s) ==
    /\ hPc = "send"
    /\ hOutcomes' = Append(hOutcomes, [kind |-> "resp", status |-> s])
    /\ IF s >= 500 /\ hAttempt < hAttempts
       THEN /\ hPc' = "sleep"
            /\ hSleeps' = Append(hSleeps, [attempt |-> hAttempt, kind |-> "backoff"])
            /\ UNCHANGED hResult
       ELSE /\ hPc' = "done"
            /\ hResult' = Returned(s)
            /\ UNCHANGED hSleeps
    /\ UNCHANGED <<nonHttpVars, hDefault, hThrottle, hOverride, hAttempts, hAttempt, hLastExc>>

\* _send_once returns a response with status s
SendResponds(s) ==
    /\ hPc = "send"
    /\ hOutcomes' = Append(hOutcomes, [kind |-> "resp", status |-> s])
    /\ IF s >= 500 /\ hAttempt < hAttempts
       THEN /\ hPc' = "sleep"
            /\ hSleeps' = Append(hSleeps, [attempt |-> hAttempt, kind |-> "backoff"])
            /\ UNCHANGED hResult
       ELSE IF s = 429 /\ hThrottle
       THEN /\ hPc' = "sleep"
            /\ hSleeps' = Append(hSleeps, [attempt |-> hAttempt, kind |-> "retry_after"])
            /\ UNCHANGED hResult
       ELSE /\ hPc' = "done"
            /\ hResult' = Returned(s)
            /\ UNCHANGED hSleeps
    /\ UNCHANGED <<nonHttpVars, hDefault, hThrottle, hOverride, hAttempts, hAttempt, hLastExc>>

\* asyncio.sleep(delay) returns: the next iteration, or the end of the loop
SleepReturns ==
    /\ hPc = "sleep"
    /\ IF hAttempt < hAttempts
       THEN /\ hAttempt' = hAttempt + 1
            /\ hPc' = "send"
            /\ UNCHANGED hResult
       ELSE /\ hPc' = "done"
            /\ hResult' = LoopExit(hLastExc)
            /\ UNCHANGED hAttempt
    /\ UNCHANGED <<nonHttpVars, hDefault, hThrottle, hOverride, hAttempts, hLastExc, hOutcomes,
                   hSleeps>>

(***************************************************************************)
(* ReconContext.emit                                                       *)
(***************************************************************************)
\* The strings emit is called with.
Categories == {"", " ", "web", "Web ", "sqli"}
Values == {"", "x"}
RawPairs == Categories \X Values

\* The thread of the event loop, where the coroutines of the units run, and a
\* worker thread of asyncio.to_thread.
Threads == {"loop", "worker"}

\* str.lower() and str.strip() on the strings above
Lower(c) == IF c = "Web " THEN "web " ELSE c
Strip(c) == CASE c = "web " -> "web" [] c = " " -> "" [] OTHER -> c

\* cat = category.lower().strip()
NormalizeCategory(category) == Strip(Lower(category))

NoArg == [category |-> "", value |-> ""]

\* an emit that skips the test of the seen set
SeenBeforeNever(cat, value) == FALSE

\* value in seen, with seen = self._progress_seen.setdefault(cat, set())
SeenBefore(cat, value) == <<cat, value>> \in seen

EmitIdle ==
    /\ eObserver = FALSE
    /\ eEventPath = FALSE
    /\ seen = {}
    /\ eventLog = <<>>
    /\ writeAttempts = <<>>
    /\ observed = <<>>
    /\ delivered = <<>>
    /\ emitCalls = [p \in RawPairs |-> 0]
    /\ ePc = [t \in Threads |-> "idle"]
    /\ eArg = [t \in Threads |-> NoArg]

RECURSIVE SumCalls(_)
SumCalls(S) ==
    IF S = {} THEN 0
    ELSE LET p == CHOOSE q \in S : TRUE IN emitCalls[p] + SumCalls(S \ {p})

\* emit(category, value) on thread t, up to the test "if value in seen"
EmitEnter(t, category, value) ==
    /\ ePc[t] = "idle"
    /\ SumCalls(RawPairs) < MaxEmits
    /\ emitCalls' = [emitCalls EXCEPT ![<<category, value>>] = @ + 1]
    /\ IF category = "" \/ value = ""
       THEN UNCHANGED <<ePc, eArg>>
       ELSE LET cat == NormalizeCategory(category)
            IN  IF SeenBefore(cat, value)
                THEN UNCHANGED <<ePc, eArg>>
                ELSE /\ ePc' = [ePc EXCEPT ![t] = "checked"]
                     /\ eArg' = [eArg EXCEPT ![t] = [category |-> cat, value |-> value]]
    /\ UNCHANGED <<nonEmitVars, eObserver, eEventPath, seen, eventLog,
                   writeAttempts, observed, delivered>>

\* where emit stands after a raising sink write or observer call left its
\* try block and both were propagated to the caller
AfterSinkFailurePropagated(writeOk, cbOk) == IF writeOk /\ cbOk THEN "idle" ELSE "raised"

\* where emit stands after its two try blocks: "except Exception: pass" in
\* both, so the call returns to its caller whatever the sinks did
AfterSinkFailure(writeOk, cbOk) == "idle"

\* the rest of emit: seen.add(value), the event sink write (which may raise
\* and is then swallowed), the progress_cb call (which may raise as well)
EmitCommit(t, writeOk, cbOk) ==
    /\ ePc[t] = "checked"
    /\ seen' = seen \cup {<<eArg[t].category, eArg[t].value>>}
    /\ IF eEventPath
       THEN /\ writeAttempts' = Append(writeAttempts, eArg[t])
            /\ eventLog' = IF writeOk THEN Append(eventLog, eArg[t]) ELSE eventLog
       ELSE UNCHANGED <<writeAttempts, eventLog>>
    /\ observed' = IF eObserver THEN Append(observed, eArg[t]) ELSE observed
    /\ delivered' = IF eObserver /\ cbOk THEN Append(delivered, eArg[t]) ELSE delivered
    /\ ePc' = [ePc EXCEPT ![t] = AfterSinkFailure(writeOk, cbOk)]
    /\ eArg' = [eArg EXCEPT ![t] = NoArg]
    /\ UNCHANGED <<nonEmitVars, eObserver, eEventPath, emitCalls>>

WriteOutcomes == IF eEventPath THEN BOOLEAN ELSE {TRUE}
ObserverOutcomes == IF eObserver THEN BOOLEAN ELSE {TRUE}

(***************************************************************************)
(* state_manager.py: save_state and load_state                             *)
(*                                                                         *)
(* A Python or JSON value is [kind, items]: kind is "str", "list", "dict", *)
(* "num", "null" or "missing" (the key is absent) and items holds the      *)
(* content; a dict's items are [key, val] entries.  A text is a sequence   *)
(* of characters, a character a number: 0..9 are the digits.               *)
(***************************************************************************)
Val(kind, items) == [kind |-> kind, items |-> items]
Missing == Val("missing", <<>>)
IntKey(n) == [t |-> "int", n |-> n, s |-> <<>>]
StrKey(chars) == [t |-> "str", n |-> 0, s |-> chars]
Entry(k, v) == [key |-> k, val |-> v]

\* str(n) of a non-negative int, as json.dumps writes a dict key
RECURSIVE Decimal(_)
Decimal(n) == IF n < 10 THEN <<n>> ELSE Append(Decimal(n \div 10), n % 10)

\* int(text), as the Dict[int, str] annotation coerces a key
IsDecimal(chars) == Len(chars) > 0 /\ \A i \in 1..Len(chars) : chars[i] \in 0..9
RECURSIVE ParseDecimal(_)
ParseDecimal(chars) ==
    IF Len(chars) = 0 THEN 0
    ELSE 10 * ParseDecimal(SubSeq(chars, 1, Len(chars) - 1)) + chars[Len(chars)]

\* The fields of the state dict, in the order save_state writes them.
StateFields == <<"scope", "config", "subdomains", "base_ports", "web_ports",
                 "nuclei_raw", "nuclei_urls", "findings", "screenshots", "extra",
                 "timings">>

\* ReconStateModel: the kind each field is annotated with
FieldKind(f) ==
    CASE f \in {"subdomains", "nuclei_urls", "findings", "screenshots"} -> "list"
      [] f = "nuclei_raw" -> "str"
      [] OTHER -> "dict"

\* ReconStateModel: the default of a field that is absent
FieldDefault(f) == Val(FieldKind(f), <<>>)

\* json.dumps of one value: dict keys become strings, the rest is kept
JsonDump(v) ==
    IF v.kind = "dict"
    THEN Val("dict", [i \in 1..Len(v.items) |->
                        IF v.items[i].key.t = "int"
                        THEN Entry(StrKey(Decimal(v.items[i].key.n)), v.items[i].val)
                        ELSE v.items[i]])
    ELSE v

\* payload = json.dumps(state, indent=2)
JsonDumps(state) ==
    [json |-> TRUE, top |-> "object", fields |-> [f \in Range(StateFields) |-> JsonDump(state[f])]]

\* gzip.compress(payload.encode("utf-8"))
Compress(text) == [gz |-> "gzip", utf8 |-> TRUE, text |-> text]

\* p.write_bytes(compressed)
SavedFile(state) == [st |-> "ok", bytes |-> Compress(JsonDumps(state))]

NoDoc == [json |-> FALSE, top |-> "scalar", fields |-> [f \in Range(StateFields) |-> Missing]]

Return(v) == [kind |-> "return", top |-> "object", value |-> v, exc |-> ""]
Raise(e) ==
    [kind |-> "raise", top |-> "object",
     value |-> [f \in Range(StateFields) |-> Missing], exc |-> e]

\* {}: "no snapshot"
EmptyState == [f \in Range(StateFields) |-> Missing]

\* ScopeState / ReconStateModel validation of one field
FieldValid(f, v) ==
    \/ v.kind = "missing" /\ f # "scope"
    \/ /\ v.kind = FieldKind(f)
       /\ f = "base_ports" =>
              \A i \in 1..Len(v.items) :
                  v.items[i].key.t = "int" \/ IsDecimal(v.items[i].key.s)

\* the value the validated model holds for a field (then model_dump)
FieldCoerced(f, v) ==
    IF v.kind = "missing" THEN FieldDefault(f)
    ELSE IF f = "base_ports"
    THEN Val("dict", [i \in 1..Len(v.items) |->
                        IF v.items[i].key.t = "str"
                        THEN Entry(IntKey(ParseDecimal(v.items[i].key.s)), v.items[i].val)
                        ELSE v.items[i]])
    ELSE v

SchemaValid(fields) == \A f \in Range(StateFields) : FieldValid(f, fields[f])

\* validated = ReconStateModel(**data); return _model_to_dict(validated)
\* ** of a value that is no mapping is a TypeError, which is not caught
ValidateWithPydantic(doc) ==
    IF doc.top # "object" THEN Raise("TypeError")
    ELSE IF ~SchemaValid(doc.fields) THEN Return(EmptyState)
    ELSE Return([f \in Range(StateFields) |-> FieldCoerced(f, doc.fields[f])])

\* return data if isinstance(data, dict) else {}
ValidateWithoutPydantic(doc) ==
    IF doc.top = "object" THEN Return(doc.fields) ELSE Return(EmptyState)

\* text = gzip.decompress(raw).decode("utf-8"), else raw.decode("utf-8"):
\* the bytes of a gzip stream, whole or cut, are no UTF-8 text
DecodedText(bytes) ==
    IF bytes.gz = "gzip" /\ bytes.utf8 THEN <<bytes.text>>
    ELSE IF bytes.gz = "plain" /\ bytes.utf8 THEN <<bytes.text>>
    ELSE <<>>

LoadState(file, pydantic) ==
    IF file.st = "absent" THEN Return(EmptyState)          \* not p.exists()
    ELSE IF file.st = "unreadable" THEN Return(EmptyState) \* read_bytes raises
    ELSE LET text == DecodedText(file.bytes)
         IN  IF text = <<>> THEN Return(EmptyState)
             ELSE IF ~text[1].json THEN Return(EmptyState) \* json.loads raises
             ELSE IF pydantic THEN ValidateWithPydantic(text[1])
             ELSE ValidateWithoutPydantic(text[1])

(***************************************************************************)
(* The contexts saved and the file contents load_state is given            *)
(***************************************************************************)
Ports == {7, 80, 443}
HostChars == <<17, 10, 28>>          \* a host name
Label(port) == IF port = 80 THEN "http" ELSE IF port = 443 THEN "https" ELSE "unknown"

RECURSIVE SortedSeq(_)
SortedSeq(S) ==
    IF S = {} THEN <<>>
    ELSE LET m == CHOOSE x \in S : \A y \in S : x <= y
         IN  <<m>> \o SortedSeq(S \ {m})

StrList(k) == Val("list", [i \in 1..k |-> "a.test"])
\* ctx.scope.__dict__: host, ip, url, mode
ScopeVal ==
    Val("dict", <<Entry(StrKey(<<17>>), "a.test"), Entry(StrKey(<<18>>), "192.0.2.1"),
                  Entry(StrKey(<<30>>), "http://a.test"), Entry(StrKey(<<22>>), "passive")>>)

\* the dict save_state builds from a context with k entries in each list,
\* the open ports P and, when run, timings and unit output
StateOf(k, P, run) ==
    LET ps == SortedSeq(P) IN
    [scope |-> ScopeVal,
     config |-> Val("dict", <<>>),
     subdomains |-> StrList(k),
     base_ports |-> Val("dict", [i \in 1..Len(ps) |-> Entry(IntKey(ps[i]), Label(ps[i]))]),
     web_ports |-> Val("dict", IF k = 0 THEN <<>> ELSE <<Entry(StrKey(HostChars), <<80, 443>>)>>),
     nuclei_raw |-> Val("str", IF run THEN <<"[high] finding">> ELSE <<>>),
     nuclei_urls |-> StrList(k),
     findings |-> StrList(k),
     screenshots |-> StrList(k),
     extra |-> Val("dict", IF run THEN <<Entry(StrKey(HostChars), <<"a.test/login">>)>> ELSE <<>>),
     timings |-> Val("dict", IF run THEN <<Entry(StrKey(HostChars), 150)>> ELSE <<>>)]

Contexts == {StateOf(k, P, run) : k \in 0..MaxListLen, P \in SUBSET Ports, run \in BOOLEAN}

ObjectDoc(fields) == [json |-> TRUE, top |-> "object", fields |-> fields]

\* JSON documents that are no snapshot: not an object, or failing the schema
BadDocs ==
    {[json |-> TRUE, top |-> "array", fields |-> EmptyState],
     [json |-> TRUE, top |-> "scalar", fields |-> EmptyState],
     ObjectDoc(EmptyState),
     ObjectDoc([EmptyState EXCEPT !["scope"] = Val("num", <<>>)]),
     ObjectDoc([EmptyState EXCEPT !["scope"] = ScopeVal,
                                  !["findings"] = Val("str", <<>>)]),
     ObjectDoc([EmptyState EXCEPT !["scope"] = ScopeVal,
                                  !["base_ports"] =
                                      Val("dict", <<Entry(StrKey(<<17, 29>>), "http")>>)])}

\* a snapshot written by hand: scope only, the other fields left out
PartialDoc == ObjectDoc([EmptyState EXCEPT !["scope"] = ScopeVal])

\* What may lie at the state path besides a file save_state wrote.
ForeignFiles ==
    {[st |-> "absent", bytes |-> [gz |-> "plain", utf8 |-> FALSE, text |-> NoDoc]],
     [st |-> "unreadable", bytes |-> [gz |-> "plain", utf8 |-> FALSE, text |-> NoDoc]],
     [st |-> "ok", bytes |-> [gz |-> "plain", utf8 |-> FALSE, text |-> NoDoc]],
     [st |-> "ok", bytes |-> [gz |-> "gzip", utf8 |-> FALSE, text |-> NoDoc]],
     [st |-> "ok", bytes |-> [gz |-> "plain", utf8 |-> TRUE, text |-> NoDoc]],
     [st |-> "ok", bytes |-> [gz |-> "gzip", utf8 |-> TRUE, text |-> NoDoc]]}
    \cup {[st |-> "ok", bytes |-> [gz |-> z, utf8 |-> TRUE, text |-> d]] :
            z \in {"plain", "gzip"}, d \in BadDocs \cup {PartialDoc}}

SnapIdle ==
    /\ sPydantic = FALSE
    /\ sCtx = EmptyState
    /\ sFile = [st |-> "absent", bytes |-> [gz |-> "plain", utf8 |-> FALSE, text |-> NoDoc]]
    /\ sFresh = FALSE
    /\ sLoad = [kind |-> "none", top |-> "object", value |-> EmptyState, exc |-> "",
                file |-> sFile, fresh |-> FALSE]
    /\ sWriter = "idle"
    /\ sPrev = sFile

\* save_state(ctx, path)
SaveState ==
    /\ sFile' = SavedFile(sCtx)
    /\ sFresh' = TRUE
    /\ UNCHANGED <<nonSnapVars, sPydantic, sCtx, sLoad, sWriter, sPrev>>

\* the file is cut short: an interrupted write, a full disk
TruncateFile ==
    /\ sFile.st = "ok"
    /\ sFile.bytes.gz = "gzip"
    /\ sFile' = [sFile EXCEPT !.bytes.gz = "gzip_truncated"]
    /\ sFresh' = FALSE
    /\ UNCHANGED <<nonSnapVars, sPydantic, sCtx, sLoad, sWriter, sPrev>>

\* something else is put at, or removed from, the state path
ReplaceFile(f) ==
    /\ sFile' = f
    /\ sFresh' = FALSE
    /\ UNCHANGED <<nonSnapVars, sPydantic, sCtx, sLoad, sWriter, sPrev>>

\* state = load_state(path)
LoadStateCall ==
    /\ sLoad' = LoadState(sFile, sPydantic) @@ [file |-> sFile, fresh |-> sFresh]
    /\ UNCHANGED <<nonSnapVars, sPydantic, sCtx, sFile, sFresh, sWriter, sPrev>>

(***************************************************************************)
(* p.write_bytes(compressed), step by step: Path.write_bytes opens the     *)
(* path with mode "wb", which truncates the file in place, writes the      *)
(* bytes to it and closes it.  The process may be killed between the       *)
(* steps; load_state may read the path at any time.                        *)
(***************************************************************************)
AbsentFile == [st |-> "absent", bytes |-> [gz |-> "plain", utf8 |-> FALSE, text |-> NoDoc]]

\* the file just after open(path, "wb"): no bytes
EmptyFile == [st |-> "ok", bytes |-> [gz |-> "plain", utf8 |-> TRUE, text |-> NoDoc]]

\* the file when only a prefix of the compressed bytes has been written
PartialFile(state) == [SavedFile(state) EXCEPT !.bytes.gz = "gzip_truncated"]

\* contexts a previous run may have saved at the path
PrevContexts == {StateOf(0, {}, FALSE), StateOf(MaxListLen, {80}, TRUE)}

\* the steps of write_bytes in order: the file each leaves and the next position
WriteSteps ==
    [idle |-> [file |-> EmptyFile, to |-> "open"],
     killed |-> [file |-> EmptyFile, to |-> "open"],
     open |-> [file |-> PartialFile(sCtx), to |-> "partial"],
     partial |-> [file |-> SavedFile(sCtx), to |-> "idle"]]

\* open(path, "wb")
WriteOpen ==
    /\ sWriter \in {"idle", "killed"}
    /\ sPrev' = IF sWriter = "idle" THEN sFile ELSE sPrev
    /\ sFile' = WriteSteps[sWriter].file
    /\ sWriter' = WriteSteps[sWriter].to
    /\ sFresh' = FALSE
    /\ UNCHANGED <<nonSnapVars, sPydantic, sCtx, sLoad>>

\* f.write(data): the first part of the bytes reaches the file
WriteSome ==
    /\ sWriter = "open"
    /\ sFile' = WriteSteps[sWriter].file
    /\ sWriter' = WriteSteps[sWriter].to
    /\ UNCHANGED <<nonSnapVars, sPydantic, sCtx, sLoad, sFresh, sPrev>>

\* the rest of the bytes reaches the file and it is closed
WriteRest ==
    /\ sWriter = "partial"
    /\ sFile' = WriteSteps[sWriter].file
    /\ sWriter' = WriteSteps[sWriter].to
    /\ sFresh' = TRUE
    /\ UNCHANGED <<nonSnapVars, sPydantic, sCtx, sLoad, sPrev>>

\* the writing process is interrupted: the file stays as it is
WriterKilled ==
    /\ sWriter \in {"open", "partial"}
    /\ sWriter' = "killed"
    /\ UNCHANGED <<nonSnapVars, sPydantic, sCtx, sFile, sFresh, sLoad, sPrev>>

(***************************************************************************)
(* DecisionEngine.evaluate                                                 *)
(***************************************************************************)
ScanTask(task_type, args) == [task_type |-> task_type, args |-> args]

TechTags == {"Jenkins", "WordPress", "Nginx"}

\* ProbeResult: status_code and content_length are None or an int
ProbeResults ==
    [status_code : {NoValue, Some(200), Some(403), Some(404)},
     content_length : {NoValue, Some(0), Some(120)},
     technologies : SeqsUpTo(TechTags, MaxTechs)]

\* tasks.append(ScanTask(...)) when the rule's condition holds
AppendIf(cond, tasks, t) == IF cond THEN Append(tasks, t) ELSE tasks

\* only the first rule whose condition holds appends
EvaluateFirstMatch(probe_result) ==
    LET status == probe_result.status_code
        techs == probe_result.technologies
        content_length == OrElse(probe_result.content_length, 0)
    IN  IF status = Some(403) THEN <<ScanTask("403_BYPASS", NoValue)>>
        ELSE IF InSeq("Jenkins", techs)
        THEN <<ScanTask("NUCLEI_SCAN", Some(<<"jenkins-cves">>))>>
        ELSE IF InSeq("WordPress", techs) THEN <<ScanTask("WP_SCAN", NoValue)>>
        ELSE IF status = Some(200) /\ content_length > 0
        THEN <<ScanTask("JS_ANALYSIS", NoValue)>>
        ELSE IF status = Some(200) THEN <<ScanTask("FUZZING", NoValue)>>
        ELSE <<>>

Evaluate(probe_result) ==
    LET status == probe_result.status_code
        techs == probe_result.technologies
        content_length == OrElse(probe_result.content_length, 0)
        t1 == AppendIf(status = Some(403), <<>>, ScanTask("403_BYPASS", NoValue))
        t2 == AppendIf(InSeq("Jenkins", techs), t1,
                       ScanTask("NUCLEI_SCAN", Some(<<"jenkins-cves">>)))
        t3 == AppendIf(InSeq("WordPress", techs), t2, ScanTask("WP_SCAN", NoValue))
        t4 == AppendIf(status = Some(200) /\ content_length > 0, t3,
                       ScanTask("JS_ANALYSIS", NoValue))
    IN  AppendIf(status = Some(200), t4, ScanTask("FUZZING", NoValue))

DecideIdle ==
    /\ dResult = [status_code |-> NoValue, content_length |-> NoValue,
                  technologies |-> <<>>]
    /\ dTasks = <<>>
    /\ dPc = "idle"

\* tasks = decider.evaluate(probe_result)
EvaluateCall ==
    /\ dPc = "idle"
    /\ dTasks' = Evaluate(dResult)
    /\ dPc' = "evaluated"
    /\ UNCHANGED <<nonDecideVars, dResult>>

\* the caller holds the next probe result
NextProbeResult(r) ==
    /\ dPc = "evaluated"
    /\ dResult' = r
    /\ dTasks' = <<>>
    /\ dPc' = "idle"
    /\ UNCHANGED nonDecideVars

(***************************************************************************)
(* run_task_queue                                                          *)
(*                                                                         *)
(* A target string is [scheme, host, slashes]: the scheme prefix it starts *)
(* with ("" when it has none), the rest without trailing slashes, and the  *)
(* number of trailing slashes.                                             *)
(***************************************************************************)
Url(scheme, host, slashes) == [scheme |-> scheme, host |-> host, slashes |-> slashes]

Hosts == {"a.test", "b.test"}
SeedStrings == {Url(sc, h, n) : sc \in {"", "http://"}, h \in Hosts, n \in 0..1}

\* what a fuzzing task may report: absolute URLs, taken as they are printed
EndpointPool == {Url("http://", h, n) : h \in Hosts, n \in 0..1}

\* what SmartProbe.probe_url may answer for a target
QueueProbeResults ==
    [status_code : {NoValue, Some(200), Some(403)},
     content_length : {NoValue, Some(120)},
     technologies : {<<>>, <<"Jenkins">>}]

\* _normalize_target
NormalizeTarget(target) ==
    IF target.scheme # ""
    THEN [target EXCEPT !.slashes = 0]
    ELSE Url("http://", target.host, 0)

\* if target in seen: continue
AlreadySeenNever(target, seenSet) == FALSE

AlreadySeen(target, seenSet) == target \in seenSet

\* queue.pop(): the last element
PopLast(q) == [target |-> q[Len(q)], rest |-> SubSeq(q, 1, Len(q) - 1)]

\* target = queue.pop(0)
PopFirst(q) == [target |-> Head(q), rest |-> Tail(q)]

\* FuzzerModule.run: for hit in discovered: append when not yet in ctx.new_endpoints
RECURSIVE AppendNew(_, _)
AppendNew(eps, discovered) ==
    IF discovered = <<>> THEN eps
    ELSE AppendNew(IF InSeq(Head(discovered), eps) THEN eps
                   ELSE Append(eps, Head(discovered)),
                   Tail(discovered))

\* the endpoints are dropped instead of queued
EnqueueNone(q, seenSet, eps) == q

\* for ep in ctx.new_endpoints: if ep not in seen and ep not in queue: queue.append(ep)
RECURSIVE Enqueue(_, _, _)
Enqueue(q, seenSet, eps) ==
    IF eps = <<>> THEN q
    ELSE Enqueue(IF Head(eps) \notin seenSet /\ ~InSeq(Head(eps), q)
                 THEN Append(q, Head(eps)) ELSE q,
                 seenSet, Tail(eps))

\* the loop is left at once
LoopEndsAlways(q) == TRUE

\* while queue: the loop ends when the list is empty
LoopEnds(q) == q = <<>>

NoTask == [task_type |-> "", handler |-> "none", outcome |-> "none"]

QueueIdle ==
    /\ qSeeds = <<>>
    /\ queue = <<>>
    /\ qSeen = {}
    /\ qPc = "start"
    /\ qTarget = <<>>
    /\ qTasks = <<>>
    /\ newEndpoints = <<>>
    /\ qProbed = <<>>
    /\ qPlaced = <<>>
    /\ qReported = {}
    /\ qLast = NoTask

\* queue = [_normalize_target(t) for t in initial_targets or []]; seen = set()
QueueStart ==
    /\ qPc = "start"
    /\ queue' = [i \in 1..Len(qSeeds) |-> NormalizeTarget(qSeeds[i])]
    /\ qPlaced' = queue'
    /\ qSeen' = {}
    /\ qPc' = "loop"
    /\ UNCHANGED <<nonQueueVars, qSeeds, qTarget, qTasks, newEndpoints, qProbed, qReported,
                   qLast>>

\* target = queue.pop(0); if target in seen: continue
PopSeen ==
    /\ qPc = "loop"
    /\ ~LoopEnds(queue)
    /\ AlreadySeen(PopFirst(queue).target, qSeen)
    /\ queue' = PopFirst(queue).rest
    /\ qTarget' = <<PopFirst(queue).target>>
    /\ qLast' = NoTask
    /\ UNCHANGED <<nonQueueVars, qSeeds, qSeen, qPc, qTasks, newEndpoints, qProbed,
                   qPlaced, qReported>>

\* target = queue.pop(0); seen.add(target); probe_result = await probe.probe_url(target);
\* tasks = decider.evaluate(probe_result)
PopProbe(probe_result) ==
    /\ qPc = "loop"
    /\ ~LoopEnds(queue)
    /\ ~AlreadySeen(PopFirst(queue).target, qSeen)
    /\ queue' = PopFirst(queue).rest
    /\ qTarget' = <<PopFirst(queue).target>>
    /\ qSeen' = qSeen \cup {PopFirst(queue).target}
    /\ qProbed' = Append(qProbed, PopFirst(queue).target)
    /\ qTasks' = Evaluate(probe_result)
    /\ qPc' = IF Evaluate(probe_result) = <<>> THEN "loop" ELSE "tasks"
    /\ qLast' = NoTask
    /\ UNCHANGED <<nonQueueVars, qSeeds, newEndpoints, qPlaced, qReported>>

\* a dispatch that hands every type without a handler to the fuzzer
HandlerOrFuzzer(task_type) ==
    CASE task_type = "403_BYPASS" -> "BypassModule"
      [] task_type = "JS_ANALYSIS" -> "JsSpiderModule"
      [] OTHER -> "FuzzerModule"

\* _execute_task: the module run for task.task_type.upper() (the types of
\* evaluate are upper case already); "none" is the else branch, which logs
\* "not implemented in Task Queue; skipping." through ctx.log
Handler(task_type) ==
    CASE task_type = "403_BYPASS" -> "BypassModule"
      [] task_type = "FUZZING" -> "FuzzerModule"
      [] task_type = "JS_ANALYSIS" -> "JsSpiderModule"
      [] OTHER -> "none"

\* one iteration of "for task in tasks": await _execute_task(task, target, ctx),
\* where only the FuzzerModule reports endpoints, then the endpoints are
\* queued and ctx.new_endpoints is cleared
ExecuteTask(discovered) ==
    /\ qPc = "tasks"
    /\ Handler(Head(qTasks).task_type) # "FuzzerModule" => discovered = <<>>
    /\ qLast' = [task_type |-> Head(qTasks).task_type,
                 handler |-> Handler(Head(qTasks).task_type), outcome |-> "returned"]
    /\ LET reported == AppendNew(newEndpoints, discovered)
           queued == Enqueue(queue, qSeen, reported)
           added == SubSeq(queued, Len(queue) + 1, Len(queued))
       IN  /\ queue' = queued
           /\ qPlaced' = qPlaced \o added
           /\ qReported' = qReported \cup
                  {[by |-> qTarget[1], ep |-> e] :
                      e \in {x \in Range(reported) : x \notin qSeen /\ ~InSeq(x, queue)}}
    /\ newEndpoints' = <<>>
    /\ qTasks' = Tail(qTasks)
    /\ qPc' = IF Tail(qTasks) = <<>> THEN "loop" ELSE "tasks"
    /\ UNCHANGED <<nonQueueVars, qSeeds, qSeen, qTarget, qProbed>>

\* where the loop stands after an await that raised, had the loop caught the
\* error and gone on with the next task or target
AfterRaiseIsolated(tasks) == IF tasks = <<>> \/ Tail(tasks) = <<>> THEN "loop" ELSE "tasks"

\* run_task_queue has no try statement: an exception of probe.probe_url or
\* of _execute_task leaves the while loop and the coroutine
AfterRaise(tasks) == "raised"

\* target = queue.pop(0); seen.add(target); ctx.log(...);
\* await probe.probe_url(target) raises
PopProbeRaises ==
    /\ qPc = "loop"
    /\ ~LoopEnds(queue)
    /\ ~AlreadySeen(PopFirst(queue).target, qSeen)
    /\ queue' = PopFirst(queue).rest
    /\ qTarget' = <<PopFirst(queue).target>>
    /\ qSeen' = qSeen \cup {PopFirst(queue).target}
    /\ qProbed' = Append(qProbed, PopFirst(queue).target)
    /\ qLast' = [task_type |-> "", handler |-> "SmartProbe", outcome |-> "raised"]
    /\ qPc' = AfterRaise(<<>>)
    /\ UNCHANGED <<nonQueueVars, qSeeds, qTasks, newEndpoints, qPlaced, qReported>>

\* await _execute_task(task, target, ctx) raises in the module's run; what
\* the module had appended to ctx.new_endpoints is never queued.  The else
\* branch of _execute_task only calls ctx.log, which swallows every error.
ExecuteTaskRaises(discovered) ==
    /\ qPc = "tasks"
    /\ Handler(Head(qTasks).task_type) # "none"
    /\ Handler(Head(qTasks).task_type) # "FuzzerModule" => discovered = <<>>
    /\ qLast' = [task_type |-> Head(qTasks).task_type,
                 handler |-> Handler(Head(qTasks).task_type), outcome |-> "raised"]
    /\ newEndpoints' = AppendNew(newEndpoints, discovered)
    /\ qPc' = AfterRaise(qTasks)
    /\ UNCHANGED <<nonQueueVars, qSeeds, queue, qSeen, qTarget, qTasks, qProbed, qPlaced,
                   qReported>>

\* the loop ends; return ctx
QueueReturns ==
    /\ qPc = "loop"
    /\ LoopEnds(queue)
    /\ qPc' = "done"
    /\ UNCHANGED <<nonQueueVars, qSeeds, queue, qSeen, qTarget, qTasks, newEndpoints,
                   qProbed, qPlaced, qReported, qLast>>

(***************************************************************************)
(* quick_port_scan_async and _scan_single                                  *)
(***************************************************************************)
PortPool == {80, 81, 443}

\* service_map.get(port, "unknown")
ServiceLabel(port) ==
    CASE port = 21 -> "ftp" [] port = 22 -> "ssh" [] port = 25 -> "smtp"
      [] port = 53 -> "dns" [] port = 80 -> "http" [] port = 110 -> "pop3"
      [] port = 143 -> "imap" [] port = 443 -> "https" [] port = 3306 -> "mysql"
      [] port = 5432 -> "postgresql" [] port = 6379 -> "redis"
      [] port = 8080 -> "http-alt" [] port = 8443 -> "https-alt"
      [] OTHER -> "unknown"

\* what asyncio.wait_for(asyncio.open_connection(ip, port), timeout=1.0) does
ConnectOutcomes == {"open", "timeout", "refused", "unreachable"}

\* asyncio.Semaphore(max(1, max_concurrent))
SemaphoreSize(max_concurrent) == Max(1, max_concurrent)

\* a semaphore that lets every task in
MayAcquireAlways(value) == TRUE

\* async with semaphore: the task enters when the value is above zero
MayAcquire(value) == value > 0

\* _scan_single after the connect: the body of the try, and the except
ScanResult(port, outcome, on_found) ==
    IF outcome = "open" /\ on_found # "raises"
    THEN Some(<<port, ServiceLabel(port)>>)
    ELSE NoValue

PortIdle ==
    /\ pPorts = <<>>
    /\ pMaxConcurrent = 0
    /\ pOnFound = "none"
    /\ pPc = "start"
    /\ pSem = 0
    /\ pTask = <<>>
    /\ pOutcome = <<>>
    /\ pResults = <<>>
    /\ pOpenPorts = {}

\* open_ports = {}; semaphore = asyncio.Semaphore(...); tasks = [...]; gather(*tasks)
ScanStart ==
    /\ pPc = "start"
    /\ pSem' = SemaphoreSize(pMaxConcurrent)
    /\ pTask' = [i \in 1..Len(pPorts) |-> "waiting"]
    /\ pOutcome' = [i \in 1..Len(pPorts) |-> "none"]
    /\ pResults' = [i \in 1..Len(pPorts) |-> NoValue]
    /\ pPc' = "gather"
    /\ UNCHANGED <<nonPortVars, pPorts, pMaxConcurrent, pOnFound, pOpenPorts>>

\* task i passes "async with semaphore" and starts its connect; waiters are
\* served in the order they arrived
ScanAcquire(i) ==
    /\ pPc = "gather"
    /\ i <= Len(pPorts)
    /\ pTask[i] = "waiting"
    /\ \A k \in 1..(i - 1) : pTask[k] # "waiting"
    /\ MayAcquire(pSem)
    /\ pSem' = pSem - 1
    /\ pTask' = [pTask EXCEPT ![i] = "connecting"]
    /\ UNCHANGED <<nonPortVars, pPorts, pMaxConcurrent, pOnFound, pPc, pOutcome, pResults,
                   pOpenPorts>>

\* the connect of task i ends; _scan_single returns and releases the semaphore
ScanFinish(i, outcome) ==
    /\ pPc = "gather"
    /\ i <= Len(pPorts)
    /\ pTask[i] = "connecting"
    /\ pOutcome' = [pOutcome EXCEPT ![i] = outcome]
    /\ pResults' = [pResults EXCEPT ![i] = ScanResult(pPorts[i], outcome, pOnFound)]
    /\ pTask' = [pTask EXCEPT ![i] = "done"]
    /\ pSem' = pSem + 1
    /\ UNCHANGED <<nonPortVars, pPorts, pMaxConcurrent, pOnFound, pPc, pOpenPorts>>

\* gather returns; for result in ...: if result: open_ports[port] = service
ScanReturns ==
    /\ pPc = "gather"
    /\ \A i \in 1..Len(pPorts) : pTask[i] = "done"
    /\ pOpenPorts' = {pResults[i][1] : i \in {k \in 1..Len(pPorts) : pResults[k] # NoValue}}
    /\ pPc' = "done"
    /\ UNCHANGED <<nonPortVars, pPorts, pMaxConcurrent, pOnFound, pSem, pTask, pOutcome,
                   pResults>>

(***************************************************************************)
(* run_full_recon (scheduling part), _execute_layers and _run_module       *)
(***************************************************************************)
ErrorText == "boom"          \* str(exc) of a failing unit

SchedIdle ==
    /\ layers = <<>>
    /\ fallbackLogged = FALSE
    /\ schedPc = "init"
    /\ layerIdx = 0
    /\ task = [n \in ChainNames |-> "none"]
    /\ runCalls = [n \in ChainNames |-> 0]
    /\ raised = {}
    /\ errors = <<>>
    /\ timings = [n \in ChainNames |-> "none"]
    /\ extraErrors = <<>>

\* layers = _resolve_module_layers(modules, log)
ResolveStep ==
    /\ schedPc = "init"
    /\ layers' = ResolveModuleLayers(modules)
    /\ fallbackLogged' = UsesFallback(modules)
    /\ schedPc' = "loop"
    /\ UNCHANGED <<nonSchedVars, modules, layerIdx, task, runCalls, raised, errors, timings,
                   extraErrors>>

\* for layer in layers: tasks.append(asyncio.create_task(_run_module(...)))
CreateLayerTasks ==
    /\ schedPc = "loop"
    /\ layerIdx < Len(layers)
    /\ layerIdx' = layerIdx + 1
    /\ task' = [n \in ChainNames |->
                    IF InSeq(n, layers[layerIdx + 1]) THEN "created" ELSE task[n]]
    /\ schedPc' = "gather"
    /\ UNCHANGED <<nonSchedVars, modules, layers, fallbackLogged, runCalls, raised, errors,
                   timings, extraErrors>>

\* The event loop starts the tasks of a layer in the order of their creation.
FirstCreated(layer) ==
    LET waiting == SelectSeq(layer, LAMBDA n : task[n] = "created")
    IN  IF waiting = <<>> THEN AbsentName ELSE Head(waiting)

\* _run_module up to the call of module.run
RunModuleBegin(n) ==
    /\ schedPc = "gather"
    /\ task[n] = "created"
    /\ FirstCreated(layers[layerIdx]) = n
    /\ IF ~ModuleNamed(modules, n).enabled
       THEN /\ timings' = [timings EXCEPT ![n] = "zero"]
            /\ task' = [task EXCEPT ![n] = "finished"]
            /\ UNCHANGED runCalls
       ELSE /\ runCalls' = [runCalls EXCEPT ![n] = @ + 1]
            /\ task' = [task EXCEPT ![n] = "running"]
            /\ UNCHANGED timings
    /\ UNCHANGED <<nonSchedVars, modules, layers, fallbackLogged, schedPc, layerIdx, raised,
                   errors, extraErrors>>

\* module.run returns; the finally clause records the duration
RunModuleReturn(n) ==
    /\ schedPc = "gather"
    /\ task[n] = "running"
    /\ timings' = [timings EXCEPT ![n] = "measured"]
    /\ task' = [task EXCEPT ![n] = "finished"]
    /\ UNCHANGED <<nonSchedVars, modules, layers, fallbackLogged, schedPc, layerIdx, runCalls,
                   raised, errors, extraErrors>>

\* a _run_module without its except clause: the error leaves the task and
\* gather re-raises it into _execute_layers
RunModuleRaiseUncaught(n) ==
    /\ schedPc = "gather"
    /\ task[n] = "running"
    /\ raised' = raised \cup {n}
    /\ timings' = [timings EXCEPT ![n] = "measured"]
    /\ task' = [task EXCEPT ![n] = "finished"]
    /\ schedPc' = "aborted"
    /\ UNCHANGED <<nonSchedVars, modules, layers, fallbackLogged, layerIdx, runCalls, errors,
                   extraErrors>>

\* a _run_module whose except clause appends nothing to errors
RunModuleRaiseUnrecorded(n) ==
    /\ schedPc = "gather"
    /\ task[n] = "running"
    /\ raised' = raised \cup {n}
    /\ timings' = [timings EXCEPT ![n] = "measured"]
    /\ task' = [task EXCEPT ![n] = "finished"]
    /\ UNCHANGED <<nonSchedVars, modules, layers, fallbackLogged, schedPc, layerIdx, runCalls,
                   errors, extraErrors>>

\* module.run raises an Exception: except appends to errors, finally times
RunModuleRaise(n) ==
    /\ schedPc = "gather"
    /\ task[n] = "running"
    /\ raised' = raised \cup {n}
    /\ errors' = Append(errors, [module |-> n, error |-> ErrorText])
    /\ timings' = [timings EXCEPT ![n] = "measured"]
    /\ task' = [task EXCEPT ![n] = "finished"]
    /\ UNCHANGED <<nonSchedVars, modules, layers, fallbackLogged, schedPc, layerIdx, runCalls,
                   extraErrors>>

\* module.run returns and the log callback raises in the finally clause,
\* after ctx.timings[name] = duration: no handler encloses the call of log,
\* the error leaves the task and gather re-raises it into _execute_layers
RunModuleReturnLogRaises(n) ==
    /\ schedPc = "gather"
    /\ task[n] = "running"
    /\ timings' = [timings EXCEPT ![n] = "measured"]
    /\ task' = [task EXCEPT ![n] = "finished"]
    /\ schedPc' = "aborted"
    /\ UNCHANGED <<nonSchedVars, modules, layers, fallbackLogged, layerIdx, runCalls, raised,
                   errors, extraErrors>>

\* module.run raises and the log callback raises in the except clause, after
\* errors.append(...); the finally clause records the duration, and the
\* error of log leaves the task
RunModuleRaiseLogRaises(n) ==
    /\ schedPc = "gather"
    /\ task[n] = "running"
    /\ raised' = raised \cup {n}
    /\ errors' = Append(errors, [module |-> n, error |-> ErrorText])
    /\ timings' = [timings EXCEPT ![n] = "measured"]
    /\ task' = [task EXCEPT ![n] = "finished"]
    /\ schedPc' = "aborted"
    /\ UNCHANGED <<nonSchedVars, modules, layers, fallbackLogged, layerIdx, runCalls,
                   extraErrors>>

\* a gather that returns as soon as one of its tasks is done
GatherCompleteAny ==
    \E n \in Range(layers[layerIdx]) : task[n] = "finished"

\* await asyncio.gather(*tasks): every task of the layer is done
GatherComplete ==
    \A n \in Range(layers[layerIdx]) : task[n] = "finished"

GatherReturns ==
    /\ schedPc = "gather"
    /\ GatherComplete
    /\ schedPc' = "loop"
    /\ UNCHANGED <<nonSchedVars, modules, layers, fallbackLogged, layerIdx, task, runCalls,
                   raised, errors, timings, extraErrors>>

\* after the loop: if errors: ctx.extra["module_errors"] = errors
ExecuteLayersReturns ==
    /\ schedPc = "loop"
    /\ layerIdx = Len(layers)
    /\ extraErrors' = errors
    /\ schedPc' = "done"
    /\ UNCHANGED <<nonSchedVars, modules, layers, fallbackLogged, layerIdx, task, runCalls,
                   raised, errors, timings>>

(***************************************************************************)
(* run_full_recon: resume, build_scope, _guard_internal_target, the        *)
(* scheduling above and save_state                                         *)
(*                                                                         *)
(* A target is [name, chars]: a host name (chars is empty) or a numeric    *)
(* text (name is empty), whose characters are the digits 0..9 and Dot.     *)
(* URL targets reduce to their host part and are left out.  Numeric texts  *)
(* are written without leading zeros, so every part is decimal.            *)
(***************************************************************************)
Dot == 10                    \* the character "."

Name(n) == [name |-> n, chars |-> <<>>]
Numeric(text) == [name |-> "", chars |-> text]

\* ".".join(str(p) for p in parts)
RECURSIVE DottedText(_)
DottedText(parts) ==
    IF Len(parts) = 1 THEN Decimal(parts[1])
    ELSE Decimal(Head(parts)) \o <<Dot>> \o DottedText(Tail(parts))

\* text.startswith(prefix)
StartsWith(text, prefix) ==
    Len(text) >= Len(prefix) /\ SubSeq(text, 1, Len(prefix)) = prefix

\* text.split(".")
RECURSIVE SplitDots(_)
SplitDots(text) ==
    LET dots == {i \in 1..Len(text) : text[i] = Dot} IN
    IF dots = {} THEN <<text>>
    ELSE LET i == CHOOSE d \in dots : \A e \in dots : d <= e
         IN  <<SubSeq(text, 1, i - 1)>> \o SplitDots(SubSeq(text, i + 1, Len(text)))

\* the k bytes of v, most significant first
Bytes(v, k) == [i \in 1..k |-> (v \div (256 ^ (k - i))) % 256]

\* socket.inet_aton(text): one to four numbers separated by dots; all but
\* the last are one byte each and the last fills the bytes that remain.
\* The four bytes of the address, or NoValue where inet_aton raises OSError.
InetAton(text) ==
    LET parts == SplitDots(text)
        n == Len(parts)
    IN  IF n > 4 \/ \E i \in 1..n : ~IsDecimal(parts[i]) THEN NoValue
        ELSE LET nums == [i \in 1..n |-> ParseDecimal(parts[i])]
                 k == 5 - n
             IN  IF \/ \E i \in 1..(n - 1) : nums[i] > 255
                    \/ nums[n] \div (256 ^ (k - 1)) > 255
                 THEN NoValue
                 ELSE Some(SubSeq(nums, 1, n - 1) \o Bytes(nums[n], k))

\* is_ip(value)
is_ip(value) == value.name = "" /\ InetAton(value.chars) # NoValue

\* build_scope(target, mode, log), with normalize_target(target): an IP text
\* is host and ip as it was typed; a name is resolved by gethostbyname, whose
\* answer is a dotted quad, and "ip_address or ''" turns None into "".
build_scope(target, dns) ==
    IF is_ip(target) THEN [host |-> target, ip |-> target.chars]
    ELSE [host |-> target,
          ip |-> IF dns = NoValue THEN <<>> ELSE DottedText(dns[1])]

NoScope == [host |-> Name(""), ip |-> <<>>]

\* (scope.host or "").lower() on the names below
HostLower(name) == IF name = "LOCALHOST" THEN "localhost" ELSE name

\* blocked = ip.startswith("127.") or ip.startswith("169.254.")
\*           or host in ("localhost", "127.0.0.1")
Blocked(scope) ==
    \/ StartsWith(scope.ip, <<1, 2, 7, Dot>>)
    \/ StartsWith(scope.ip, <<1, 6, 9, Dot, 2, 5, 4, Dot>>)
    \/ HostLower(scope.host.name) = "localhost"
    \/ scope.host = Numeric(DottedText(<<127, 0, 0, 1>>))

\* The address a connection to the target goes to: the bytes inet_aton reads
\* from an IP text, the resolver's answer for a name, NoValue when none.
AddressOf(target, dns) == IF is_ip(target) THEN InetAton(target.chars) ELSE dns

\* loopback 127.0.0.0/8 or link-local 169.254.0.0/16
IsInternal(address) ==
    /\ address # NoValue
    /\ \/ address[1][1] = 127
       \/ address[1][1] = 169 /\ address[1][2] = 254

Loopback == <<127, 0, 0, 1>>
LinkLocal == <<169, 254, 169, 254>>
Public == <<93, 184, 216, 34>>

\* the targets a run is given, each with the answers the resolver may give
NumericTargets ==
    {Numeric(DottedText(a)) : a \in {Loopback, LinkLocal, Public, <<127, 1>>}}
    \cup {Numeric(Decimal(2130706433)), Numeric(Decimal(1572395042))}
NameTargets == {Name("localhost"), Name("LOCALHOST"), Name("a.test")}
DnsAnswers == {NoValue, Some(Loopback), Some(LinkLocal), Some(Public)}
TargetCases ==
    {<<t, NoValue>> : t \in NumericTargets} \cup (NameTargets \X DnsAnswers)

NoOutcome == [kind |-> "none", from |-> "", exc |-> ""]
ReturnsResult(from) == [kind |-> "return", from |-> from, exc |-> ""]
RaisesError(exc) == [kind |-> "raise", from |-> "", exc |-> exc]

ReconIdle ==
    /\ rTarget = Name("")
    /\ rDns = NoValue
    /\ rAllowInternal = FALSE
    /\ rResume = FALSE
    /\ rPc = "idle"
    /\ rScope = NoScope
    /\ rOutcome = NoOutcome

\* the scheduler's variables while run_full_recon has not reached it
SchedHeld ==
    /\ layers = <<>>
    /\ fallbackLogged = FALSE
    /\ schedPc = "held"
    /\ layerIdx = 0
    /\ task = [n \in ChainNames |-> "none"]
    /\ runCalls = [n \in ChainNames |-> 0]
    /\ raised = {}
    /\ errors = <<>>
    /\ timings = [n \in ChainNames |-> "none"]
    /\ extraErrors = <<>>

\* scope = ScopeInfo(**state.get("scope", {})): host, ip, url and mode are
\* required and no other keyword is accepted; ** of a value that is no
\* mapping, a missing or an unexpected keyword is a TypeError
ScopeInfoAccepts(scope) ==
    /\ scope.kind = "dict"
    /\ {scope.items[i].key : i \in 1..Len(scope.items)}
           = {ScopeVal.items[i].key : i \in 1..Len(ScopeVal.items)}

\* if resume: state = load_state(state_path); if state: ... return to_result(ctx)
ReconResume ==
    /\ rPc = "start"
    /\ LET state == LoadState(sFile, sPydantic) IN
       IF ~rResume
       THEN /\ rPc' = "scope"
            /\ UNCHANGED <<sLoad, rOutcome>>
       ELSE /\ sLoad' = state @@ [file |-> sFile, fresh |-> sFresh]
            /\ IF state.kind = "raise"
               THEN rPc' = "done" /\ rOutcome' = RaisesError(state.exc)
               ELSE IF state.value = EmptyState
               THEN rPc' = "scope" /\ UNCHANGED rOutcome
               ELSE IF ~ScopeInfoAccepts(state.value["scope"])
               THEN rPc' = "done" /\ rOutcome' = RaisesError("TypeError")
               ELSE rPc' = "done" /\ rOutcome' = ReturnsResult("snapshot")
    /\ UNCHANGED <<nonReconVars, schedVars, sPydantic, sCtx, sFile, sFresh, sWriter, sPrev,
                   rTarget, rDns, rAllowInternal, rResume, rScope>>

\* scope = build_scope(...); _guard_internal_target(scope, config, log)
GuardInternalTarget ==
    /\ rPc = "scope"
    /\ rScope' = build_scope(rTarget, rDns)
    /\ IF Blocked(rScope') /\ ~rAllowInternal
       THEN /\ rPc' = "done"
            /\ rOutcome' = RaisesError("ValueError")
            /\ UNCHANGED schedPc
       ELSE /\ rPc' = "running"
            /\ schedPc' = "init"
            /\ UNCHANGED rOutcome
    /\ UNCHANGED <<nonReconVars, snapVars, modules, layers, fallbackLogged, layerIdx, task,
                   runCalls, raised, errors, timings, extraErrors, rTarget, rDns,
                   rAllowInternal, rResume>>

\* a save that does not wait for _execute_layers to return
ReconSaveEarly ==
    /\ rPc = "running"
    /\ sFile' = SavedFile(sCtx)
    /\ sFresh' = TRUE
    /\ rPc' = "done"
    /\ rOutcome' = ReturnsResult("run")
    /\ UNCHANGED <<nonReconVars, schedVars, sPydantic, sCtx, sLoad, sWriter, sPrev, rTarget,
                   rDns, rAllowInternal, rResume, rScope>>

\* save_state(ctx, state_path); return to_result(ctx)
ReconSaveReturns ==
    /\ rPc = "running"
    /\ schedPc = "done"
    /\ sFile' = SavedFile(sCtx)
    /\ sFresh' = TRUE
    /\ rPc' = "done"
    /\ rOutcome' = ReturnsResult("run")
    /\ UNCHANGED <<nonReconVars, schedVars, sPydantic, sCtx, sLoad, sWriter, sPrev, rTarget,
                   rDns, rAllowInternal, rResume, rScope>>

\* save_state(ctx, state_path) raises OSError: p.write_bytes cannot open the
\* path (at "open": no permission, no such directory) or cannot write the
\* bytes after it emptied the file (at "write": the disk is full).  No
\* handler encloses the call, so the error leaves run_full_recon.
ReconSaveRaises(at) ==
    /\ rPc = "running"
    /\ schedPc = "done"
    /\ sFile' = IF at = "open" THEN sFile ELSE EmptyFile
    /\ rPc' = "done"
    /\ rOutcome' = RaisesError("OSError")
    /\ UNCHANGED <<nonReconVars, schedVars, sPydantic, sCtx, sFresh, sLoad, sWriter, sPrev,
                   rTarget, rDns, rAllowInternal, rResume, rScope>>

(***************************************************************************)
(* HttpClient._compute_backoff and HttpClient._retry_after_delay           *)
(*                                                                         *)
(* Durations are whole tenths of a second.  A header value is a text over  *)
(* the digits, Dot, Minus and Letter (any character no number holds), with *)
(* at most one digit after the dot.                                        *)
(***************************************************************************)
Minus == 11                  \* the character "-"
Letter == 12                 \* a character of a word or a date

\* random.uniform(0, b): a value from 0 up to, not including, b; 0 when b = 0
Uniform(b) == IF b > 0 THEN 0..(b - 1) ELSE {0}

\* a backoff whose base grows linearly with the attempt
ComputeBackoffLinear(attempt, backoff_factor, jitter) ==
    {backoff_factor * attempt + u : u \in Uniform(Max(0, jitter))}

\* base = backoff_factor * (2 ** (attempt - 1))
\* return base + random.uniform(0, max(0.0, jitter)): the values it may return
ComputeBackoff(attempt, backoff_factor, jitter) ==
    {backoff_factor * (2 ^ (attempt - 1)) + u : u \in Uniform(Max(0, jitter))}

\* float(text), in tenths: <<>> where float raises ValueError
ParseFloat(text) ==
    LET neg == text # <<>> /\ text[1] = Minus
        body == IF neg THEN Tail(text) ELSE text
        parts == SplitDots(body)
    IN  IF Len(parts) > 2 \/ \E i \in 1..Len(parts) : ~IsDecimal(parts[i]) THEN NoValue
        ELSE LET tenths == 10 * ParseDecimal(parts[1])
                           + (IF Len(parts) = 2 THEN parts[2][1] ELSE 0)
             IN  Some(IF neg THEN 0 - tenths ELSE tenths)

\* headers.get("Retry-After") if headers else None: the dict built from the
\* response keeps each header name as the server spelled it
RetryAfterOf(headers) ==
    IF headers # NoValue /\ headers[1].name = "Retry-After" THEN Some(headers[1].value)
    ELSE NoValue

\* _retry_after_delay(headers, attempt, backoff_factor, jitter): the values
\* it may return.  "if retry_after" is false for None and for ""; 0.1 is 1 tenth.
RetryAfterDelay(headers, attempt, backoff_factor, jitter) ==
    LET retry_after == RetryAfterOf(headers)
        parsed == IF retry_after = NoValue \/ retry_after = Some(<<>>) THEN NoValue
                  ELSE ParseFloat(retry_after[1])
    IN  IF parsed # NoValue THEN {Max(parsed[1], 1)}
        ELSE ComputeBackoff(attempt, backoff_factor, jitter)

\* the Retry-After values a 429 response may carry
RetryAfterTexts ==
    {<<>>, <<0>>, <<0, Dot, 1>>, <<2>>, <<1, Dot, 5>>, <<Minus, 1>>, <<Letter>>}
HeaderNames == {"Retry-After", "retry-after"}
HeaderCases ==
    {NoValue} \cup {Some([name |-> n, value |-> v]) : n \in HeaderNames, v \in RetryAfterTexts}

BackoffIdle ==
    /\ bAttempt = 1
    /\ bFactor = 0
    /\ bJitter = 0
    /\ bHeaders = NoValue
    /\ bCall = "none"
    /\ bDelay = 0

\* delay = self._compute_backoff(attempt, backoff, jitter)
ComputeBackoffCall ==
    /\ bCall = "none"
    /\ bDelay' \in ComputeBackoff(bAttempt, bFactor, bJitter)
    /\ bCall' = "backoff"
    /\ UNCHANGED <<nonBackoffVars, bAttempt, bFactor, bJitter, bHeaders>>

\* delay = self._retry_after_delay(resp.headers, attempt, backoff, jitter)
RetryAfterDelayCall ==
    /\ bCall = "none"
    /\ bDelay' \in RetryAfterDelay(bHeaders, bAttempt, bFactor, bJitter)
    /\ bCall' = "retry_after"
    /\ UNCHANGED <<nonBackoffVars, bAttempt, bFactor, bJitter, bHeaders>>

(***************************************************************************)
(* run_batch_scan, scan_host_async and check_port                          *)
(***************************************************************************)
COMMON_WEB_PORTS == <<80, 443, 8080, 8443>>

\* the hosts scanned and the ports a host may listen on
WebHosts == {"a.test", "b.test"}
WebPortPool == {80, 443, 8000, 8080, 8443}

\* ctx.subdomains is sorted(set(...)), or the scope's host alone: no host twice
HostLists ==
    {hs \in SeqsUpTo(WebHosts, Cardinality(WebHosts)) :
        \A i \in 1..Len(hs), j \in 1..Len(hs) : hs[i] = hs[j] => i = j}

\* a URL text: scheme "://" host, then ":" port when suffix holds a port
WebUrl(scheme, host, suffix) == [scheme |-> scheme, host |-> host, suffix |-> suffix]

\* a derivation that always writes the port suffix
UrlWithPort(host, port) ==
    WebUrl(IF port \in {443, 8443} THEN "https" ELSE "http", host, Some(port))

\* scheme = "https" if port in (443, 8443) else "http"
\* url = f"{scheme}://{host}" if port in (80, 443) else f"{scheme}://{host}:{port}"
UrlFor(host, port) ==
    WebUrl(IF port \in {443, 8443} THEN "https" ELSE "http", host,
           IF port \in {80, 443} THEN NoValue ELSE Some(port))

\* scan_host_async(host, ports, semaphore): check_port on each port, the
\* ports whose connection opened kept in the order of ports
ScanHostAsync(host, ports, open) ==
    [host |-> host, open_ports |-> SelectSeq(ports, LAMBDA p : <<host, p>> \in open)]

\* port_map[host] = ports
SetEntry(map, host, ports) ==
    {e \in map : e.host # host} \cup {[host |-> host, ports |-> ports]}

WebIdle ==
    /\ wHosts = <<>>
    /\ wOpen = {}
    /\ wOnFound = "none"
    /\ wPc = "start"
    /\ wProbed = {}
    /\ wResults = <<>>
    /\ wIdx = 0
    /\ wPortMap = {}
    /\ wUrls = <<>>
    /\ wOutcome = "none"

\* tasks = [scan_host_async(host, COMMON_WEB_PORTS, semaphore) for host in subdomains]
\* results = await asyncio.gather(*tasks)
BatchGather ==
    /\ wPc = "start"
    /\ wResults' = [i \in 1..Len(wHosts) |->
                       ScanHostAsync(wHosts[i], COMMON_WEB_PORTS, wOpen)]
    /\ wProbed' = {<<wHosts[i], COMMON_WEB_PORTS[k]>> :
                      i \in 1..Len(wHosts), k \in 1..Len(COMMON_WEB_PORTS)}
    /\ wIdx' = 1
    /\ wPc' = "loop"
    /\ UNCHANGED <<nonWebVars, wHosts, wOpen, wOnFound, wPortMap, wUrls, wOutcome>>

\* one iteration of "for host, open_ports in results" with a host that has
\* open ports; an on_found that raises ends run_batch_scan at the first port
BatchHostOpen ==
    /\ wPc = "loop"
    /\ wIdx <= Len(wResults)
    /\ wResults[wIdx].open_ports # <<>>
    /\ LET host == wResults[wIdx].host
           open_ports == wResults[wIdx].open_ports
       IN  /\ wPortMap' = SetEntry(wPortMap, host, SortedSeq(Range(open_ports)))
           /\ IF wOnFound = "raises"
              THEN /\ wUrls' = Append(wUrls, UrlFor(host, open_ports[1]))
                   /\ wOutcome' = "raise"
                   /\ wPc' = "done"
                   /\ UNCHANGED wIdx
              ELSE /\ wUrls' = wUrls \o
                          [k \in 1..Len(open_ports) |-> UrlFor(host, open_ports[k])]
                   /\ wIdx' = wIdx + 1
                   /\ UNCHANGED <<wOutcome, wPc>>
    /\ UNCHANGED <<nonWebVars, wHosts, wOpen, wOnFound, wProbed, wResults>>

\* one iteration with a host that has no open port: "if open_ports" is false
BatchHostClosed ==
    /\ wPc = "loop"
    /\ wIdx <= Len(wResults)
    /\ wResults[wIdx].open_ports = <<>>
    /\ wIdx' = wIdx + 1
    /\ UNCHANGED <<nonWebVars, wHosts, wOpen, wOnFound, wPc, wProbed, wResults, wPortMap,
                   wUrls, wOutcome>>

\* return port_map, urls
BatchReturns ==
    /\ wPc = "loop"
    /\ wIdx > Len(wResults)
    /\ wOutcome' = "return"
    /\ wPc' = "done"
    /\ UNCHANGED <<nonWebVars, wHosts, wOpen, wOnFound, wProbed, wResults, wIdx, wPortMap,
                   wUrls>>

(***************************************************************************)
(* The units of one layer, run concurrently by _execute_layers             *)
(***************************************************************************)
\* three of the units the default chain places in the layer after web_services,
\* in the order of _build_module_chain
LayerUnits == <<"secrets_scanner", "nuclei", "sqli_scanner">>

\* a finding text: the prefix its unit writes, then what was found
Finding(prefix, what) == [prefix |-> prefix, what |-> what]

Write(op, value) == [op |-> op, value |-> value]

\* SecretsModule._scan_url: ctx.findings.append(msg), one per pattern and url
SecretsWrites ==
    {<<>>,
     <<Write("append", Finding("(!)", "a"))>>,
     <<Write("append", Finding("(!)", "a")), Write("append", Finding("(!)", "b"))>>}

\* SqlInjectionModule._process_finding: if msg not in ctx.findings: append,
\* once per line of the scanner's report
SqliWrites ==
    {[i \in 1..Len(ws) |-> Write("append_new", Finding("[SQLi]", ws[i]))] :
        ws \in SeqsUpTo({"a", "b"}, 2)}

\* NucleiModule.run: ctx.nuclei_raw = await asyncio.to_thread(nuclei_scan, ...)
NucleiWrites == {<<>>, <<Write("set_raw", Finding("nuclei", "a"))>>}

\* what a unit's run does: its writes, then it returns or raises
LayerPlans ==
    {f \in [Range(LayerUnits) -> [writes : SecretsWrites \cup SqliWrites \cup NucleiWrites,
                                  raises : BOOLEAN]] :
        /\ f["secrets_scanner"].writes \in SecretsWrites
        /\ f["sqli_scanner"].writes \in SqliWrites
        /\ f["nuclei"].writes \in NucleiWrites}

\* a write that replaces the list
AssignFinding(findings, msg) == <<msg>>

\* ctx.findings.append(msg)
AppendFinding(findings, msg) == Append(findings, msg)

\* the effect of one write on ctx.findings
FindingsAfter(findings, w) ==
    CASE w.op = "append" -> AppendFinding(findings, w.value)
      [] w.op = "append_new" ->
            IF w.value \in Range(findings) THEN findings
            ELSE AppendFinding(findings, w.value)
      [] OTHER -> findings

LayerIdle ==
    /\ cPlan = <<>>
    /\ cStep = <<>>
    /\ cDone = {}
    /\ cFindings = <<>>
    /\ cNucleiRaw = NoValue
    /\ cErrors = <<>>
    /\ cExtra = {}
    /\ cTimings = {}
    /\ cPc = "idle"

\* a unit's run makes its next write; the units of a layer are tasks of one
\* event loop, so each write happens between two awaits
UnitWrites(u) ==
    /\ cPc = "gather"
    /\ u \notin cDone
    /\ cStep[u] < Len(cPlan[u].writes)
    /\ LET w == cPlan[u].writes[cStep[u] + 1]
       IN  /\ cFindings' = FindingsAfter(cFindings, w)
           /\ cNucleiRaw' = IF w.op = "set_raw" THEN Some(w.value) ELSE cNucleiRaw
    /\ cStep' = [cStep EXCEPT ![u] = @ + 1]
    /\ UNCHANGED <<nonLayerVars, cPlan, cDone, cErrors, cExtra, cTimings, cPc>>

\* _run_module: module.run returned; finally: ctx.timings[name] = duration
UnitReturns(u) ==
    /\ cPc = "gather"
    /\ u \notin cDone
    /\ cStep[u] = Len(cPlan[u].writes)
    /\ ~cPlan[u].raises
    /\ cDone' = cDone \cup {u}
    /\ cTimings' = cTimings \cup {u}
    /\ UNCHANGED <<nonLayerVars, cPlan, cStep, cFindings, cNucleiRaw, cErrors, cExtra, cPc>>

\* _run_module: module.run raised; errors.append({"module": name, ...}), then
\* finally: ctx.timings[name] = duration
UnitRaises(u) ==
    /\ cPc = "gather"
    /\ u \notin cDone
    /\ cStep[u] = Len(cPlan[u].writes)
    /\ cPlan[u].raises
    /\ cErrors' = Append(cErrors, [module |-> u])
    /\ cDone' = cDone \cup {u}
    /\ cTimings' = cTimings \cup {u}
    /\ UNCHANGED <<nonLayerVars, cPlan, cStep, cFindings, cNucleiRaw, cExtra, cPc>>

\* _execute_layers: gather returned for the last layer;
\* if errors: ctx.extra["module_errors"] = errors
LayerGathered ==
    /\ cPc = "gather"
    /\ cDone = Range(LayerUnits)
    /\ cExtra' = IF cErrors # <<>>
                 THEN {e \in cExtra : e.key # "module_errors"}
                      \cup {[key |-> "module_errors", value |-> cErrors]}
                 ELSE cExtra
    /\ cPc' = "done"
    /\ UNCHANGED <<nonLayerVars, cPlan, cStep, cDone, cFindings, cNucleiRaw, cErrors, cTimings>>

(***************************************************************************)
(* run_full_recon over the module chain of _build_module_chain             *)
(***************************************************************************)
Mod(name, enabled, depends_on) ==
    [name |-> name, enabled |-> enabled, depends_on |-> depends_on]

\* _build_module_chain(config) with the defaults of every "enabled" flag
DefaultChain ==
    <<Mod("subdomains", TRUE, <<>>),
      Mod("base_ports", TRUE, <<>>),
      Mod("endpoint_collector", TRUE, <<"subdomains">>),
      Mod("web_services", TRUE, <<"subdomains">>),
      Mod("web_probe", TRUE, <<"web_services">>),
      Mod("secrets_scanner", TRUE, <<"web_services">>),
      Mod("nuclei", TRUE, <<"web_services">>),
      Mod("lfi_scanner", TRUE, <<"web_services">>),
      Mod("sqli_scanner", TRUE, <<"web_services">>),
      Mod("redirect_tester", TRUE, <<"web_services">>),
      Mod("screenshotter", FALSE, <<"web_services">>)>>

ChainLayers == ResolveModuleLayers(DefaultChain)
ChainUnits == UNION {Range(ChainLayers[i]) : i \in 1..Len(ChainLayers)}

\* the target: its host name, the one name the enumeration sources may know
ScopeHost == "a.test"
SubHost == "s.a.test"
ChainWebPorts == {80, 8443}

\* what the run meets: whether the host resolved to an address, the
\* subdomains the sources return, the open ports, whether nuclei is on PATH,
\* whether the report directory of the SQLi unit can be written, whether the
\* servers answer with content the scanners flag, whether pydantic is there
Environments ==
    [ip : BOOLEAN, subs : SUBSET {SubHost}, base : SUBSET {22},
     web : SUBSET ChainWebPorts, nuclei : BOOLEAN, fsOk : BOOLEAN,
     leaks : BOOLEAN, pydantic : BOOLEAN]

EmptyContext ==
    [subdomains |-> <<>>, base_ports |-> {}, web_ports |-> {}, nuclei_urls |-> <<>>,
     nuclei_raw |-> "", findings |-> <<>>, extra |-> {}]

UnitOutcome(ctx, failed) == [ctx |-> ctx, raised |-> failed]

\* hosts = ctx.subdomains or ([ctx.scope.host] if ctx.scope.host else [])
HostsOf(ctx) == IF ctx.subdomains # <<>> THEN ctx.subdomains ELSE <<ScopeHost>>

\* SubdomainModule.run: ctx.subdomains = enumerate_all_sources(...), sorted
SubdomainsRun(ctx, env) ==
    UnitOutcome([ctx EXCEPT !.subdomains = IF env.subs = {} THEN <<>> ELSE <<SubHost>>], FALSE)

\* BasePortScanModule.run: skipped without an address
BasePortsRun(ctx, env) ==
    IF ~env.ip THEN UnitOutcome(ctx, FALSE)
    ELSE UnitOutcome([ctx EXCEPT !.base_ports = env.base], FALSE)

\* EndpointCollectorModule.run: ctx.extra["endpoints"] = sorted(all_urls)
EndpointCollectorRun(ctx, env) ==
    UnitOutcome([ctx EXCEPT !.extra = @ \cup {"endpoints"}], FALSE)

\* WebServicesModule.run: ctx.web_ports, ctx.nuclei_urls = scan_web_services(hosts)
WebServicesRun(ctx, env) ==
    LET host == HostsOf(ctx)[1]
        open == ScanHostAsync(host, COMMON_WEB_PORTS, {<<host, p>> : p \in env.web}).open_ports
    IN  UnitOutcome([ctx EXCEPT !.web_ports = {<<host, p>> : p \in env.web},
                                !.nuclei_urls = [i \in 1..Len(open) |-> UrlFor(host, open[i])]],
                    FALSE)

\* WebProbeModule.run: "if not urls: return"
WebProbeRun(ctx, env) ==
    IF ctx.nuclei_urls = <<>> THEN UnitOutcome(ctx, FALSE)
    ELSE UnitOutcome([ctx EXCEPT !.extra = @ \cup {"web_probe"}], FALSE)

\* a secrets unit that reads the first web host without the guard
SecretsRunUnguarded(ctx, env) ==
    IF ctx.web_ports = {} THEN UnitOutcome(ctx, TRUE)
    ELSE UnitOutcome([ctx EXCEPT !.findings =
                          IF env.leaks THEN Append(@, "(!) secret") ELSE @], FALSE)

\* SecretsModule.run: "if not ctx.web_ports: return"
SecretsRun(ctx, env) ==
    IF ctx.web_ports = {} THEN UnitOutcome(ctx, FALSE)
    ELSE UnitOutcome([ctx EXCEPT !.findings =
                          IF env.leaks THEN Append(@, "(!) secret") ELSE @], FALSE)

\* NucleiModule.run: ctx.nuclei_raw = nuclei_scan(ctx.nuclei_urls, ...)
NucleiRun(ctx, env) ==
    UnitOutcome([ctx EXCEPT !.nuclei_raw =
                     IF ctx.nuclei_urls = <<>>
                     THEN "No HTTP services discovered for Nuclei scan."
                     ELSE IF ~env.nuclei THEN "[!] Nuclei is not installed on this system."
                     ELSE "nuclei output"], FALSE)

\* LfiScannerModule.run and RedirectTesterModule.run: "if not ctx.nuclei_urls:
\* return"; a URL without a query string, as web_services builds them, gets
\* no probe
QueryProbeRun(ctx, env) == UnitOutcome(ctx, FALSE)

\* SqlInjectionModule._collect_targets: nuclei_urls and the URLs of web_ports
CollectTargets(ctx) ==
    Range(ctx.nuclei_urls) \cup {UrlFor(hp[1], hp[2]) : hp \in ctx.web_ports}

\* SqlInjectionModule.run: returns without targets or without nuclei; the
\* report directory and target file are then written outside any try
SqliRun(ctx, env) ==
    IF CollectTargets(ctx) = {} THEN UnitOutcome(ctx, FALSE)
    ELSE IF ~env.nuclei THEN UnitOutcome(ctx, FALSE)
    ELSE IF ~env.fsOk THEN UnitOutcome(ctx, TRUE)
    ELSE UnitOutcome([ctx EXCEPT !.findings =
                          IF env.leaks THEN Append(@, "[SQLi] HIGH") ELSE @], FALSE)

\* await module.run(ctx) of the unit named u
ModuleRun(u, ctx, env) ==
    CASE u = "subdomains" -> SubdomainsRun(ctx, env)
      [] u = "base_ports" -> BasePortsRun(ctx, env)
      [] u = "endpoint_collector" -> EndpointCollectorRun(ctx, env)
      [] u = "web_services" -> WebServicesRun(ctx, env)
      [] u = "web_probe" -> WebProbeRun(ctx, env)
      [] u = "secrets_scanner" -> SecretsRun(ctx, env)
      [] u = "nuclei" -> NucleiRun(ctx, env)
      [] u = "sqli_scanner" -> SqliRun(ctx, env)
      [] OTHER -> QueryProbeRun(ctx, env)

\* the dict save_state builds from the context
ChainState(ctx, done) ==
    LET bp == SortedSeq(ctx.base_ports)
        wp == SortedSeq({hp[2] : hp \in ctx.web_ports})
        keys == SelectSeq(<<"endpoints", "web_probe", "module_errors">>,
                          LAMBDA k : k \in ctx.extra)
        timed == SelectSeq(ActiveNames(DefaultChain), LAMBDA n : n \in done)
    IN  [scope |-> ScopeVal,
         config |-> Val("dict", <<>>),
         subdomains |-> Val("list", ctx.subdomains),
         base_ports |-> Val("dict", [i \in 1..Len(bp) |-> Entry(IntKey(bp[i]), Label(bp[i]))]),
         web_ports |-> Val("dict", IF wp = <<>> THEN <<>>
                                   ELSE <<Entry(StrKey(HostChars), wp)>>),
         nuclei_raw |-> Val("str", <<ctx.nuclei_raw>>),
         nuclei_urls |-> Val("list", ctx.nuclei_urls),
         findings |-> Val("list", ctx.findings),
         screenshots |-> Val("list", <<>>),
         extra |-> Val("dict", [i \in 1..Len(keys) |-> Entry(StrKey(<<i>>), keys[i])]),
         timings |-> Val("dict", [i \in 1..Len(timed) |-> Entry(StrKey(<<i>>), 150)]
                                 \o <<Entry(StrKey(<<0>>), 150)>>)]

ChainIdle ==
    /\ fEnv = [ip |-> FALSE, subs |-> {}, base |-> {}, web |-> {}, nuclei |-> FALSE,
               fsOk |-> FALSE, leaks |-> FALSE, pydantic |-> FALSE]
    /\ fCtx = EmptyContext
    /\ fLayer = 0
    /\ fDone = {}
    /\ fErrors = <<>>
    /\ fPc = "idle"
    /\ fFile = [st |-> "absent", bytes |-> [gz |-> "plain", utf8 |-> FALSE, text |-> NoDoc]]
    /\ fLoad = Return(EmptyState)

\* _run_module(module, ctx, log, errors) for a unit of the layer being
\* gathered; the gather returns when the last unit of the layer has finished
ChainRunModule(u) ==
    /\ fPc = "layers"
    /\ fLayer <= Len(ChainLayers)
    /\ InSeq(u, ChainLayers[fLayer])
    /\ u \notin fDone
    /\ LET out == ModuleRun(u, fCtx, fEnv)
       IN  /\ fCtx' = out.ctx
           /\ fErrors' = IF out.raised THEN Append(fErrors, u) ELSE fErrors
    /\ fDone' = fDone \cup {u}
    /\ fLayer' = IF Range(ChainLayers[fLayer]) \subseteq fDone \cup {u}
                 THEN fLayer + 1 ELSE fLayer
    /\ UNCHANGED <<nonChainVars, fEnv, fPc, fFile, fLoad>>

\* the end of _execute_layers (if errors: ctx.extra["module_errors"] = errors)
\* and save_state(ctx, state_path) into a writable state path
ChainSave ==
    /\ fPc = "layers"
    /\ fLayer > Len(ChainLayers)
    /\ LET ctx == IF fErrors # <<>>
                  THEN [fCtx EXCEPT !.extra = @ \cup {"module_errors"}] ELSE fCtx
       IN  /\ fCtx' = ctx
           /\ fFile' = SavedFile(ChainState(ctx, fDone))
    /\ fPc' = "saved"
    /\ UNCHANGED <<nonChainVars, fEnv, fLayer, fDone, fErrors, fLoad>>

\* load_state(state_path) on the snapshot of the run
ChainLoad ==
    /\ fPc = "saved"
    /\ fLoad' = LoadState(fFile, fEnv.pydantic)
    /\ fPc' = "loaded"
    /\ UNCHANGED <<nonChainVars, fEnv, fCtx, fLayer, fDone, fErrors, fFile>>

(***************************************************************************)
(* Specifications: one per component                                       *)
(***************************************************************************)
InitLayers ==
    /\ modules \in ChainsFrom(1, MaxEdges, MaxDisabled)
    /\ SchedIdle
    /\ HttpIdle
    /\ EmitIdle
    /\ SnapIdle
    /\ DecideIdle
    /\ QueueIdle
    /\ PortIdle
    /\ ReconIdle
    /\ BackoffIdle
    /\ WebIdle
    /\ LayerIdle
    /\ ChainIdle

NextLayers == ResolveStep

SpecLayers == InitLayers /\ [][NextLayers]_vars

InitSched ==
    /\ modules \in ChainsFrom(1, RunMaxEdges, MaxDisabled)
    /\ SchedIdle
    /\ HttpIdle
    /\ EmitIdle
    /\ SnapIdle
    /\ DecideIdle
    /\ QueueIdle
    /\ PortIdle
    /\ ReconIdle
    /\ BackoffIdle
    /\ WebIdle
    /\ LayerIdle
    /\ ChainIdle

NextSched ==
    \/ ResolveStep
    \/ CreateLayerTasks
    \/ \E n \in ChainNames : RunModuleBegin(n)
    \/ \E n \in ChainNames : RunModuleReturn(n)
    \/ \E n \in ChainNames : RunModuleRaise(n)
    \/ GatherReturns
    \/ ExecuteLayersReturns

SpecSched == InitSched /\ [][NextSched]_vars

\* the scheduler with a log callback that may raise on any call
NextSchedLog ==
    \/ ResolveStep
    \/ CreateLayerTasks
    \/ \E n \in ChainNames : RunModuleBegin(n)
    \/ \E n \in ChainNames : RunModuleReturn(n)
    \/ \E n \in ChainNames : RunModuleRaise(n)
    \/ \E n \in ChainNames : RunModuleReturnLogRaises(n)
    \/ \E n \in ChainNames : RunModuleRaiseLogRaises(n)
    \/ GatherReturns
    \/ ExecuteLayersReturns

SpecSchedLog == InitSched /\ [][NextSchedLog]_vars

InitHttp ==
    /\ hDefault \in 0..MaxRetries
    /\ hThrottle \in BOOLEAN
    /\ hOverride \in {NoValue} \cup {Some(n) : n \in -1..MaxRetries}
    /\ hPc = "idle"
    /\ hAttempts = 0
    /\ hAttempt = 0
    /\ hLastExc = NoValue
    /\ hOutcomes = <<>>
    /\ hSleeps = <<>>
    /\ hResult = NoResult
    /\ modules = <<>>
    /\ SchedIdle
    /\ EmitIdle
    /\ SnapIdle
    /\ DecideIdle
    /\ QueueIdle
    /\ PortIdle
    /\ ReconIdle
    /\ BackoffIdle
    /\ WebIdle
    /\ LayerIdle
    /\ ChainIdle

NextHttp ==
    \/ RequestBegin
    \/ SendFails
    \/ \E s \in Statuses : SendResponds(s)
    \/ SleepReturns

SpecHttp == InitHttp /\ [][NextHttp]_vars

InitEmit ==
    /\ eObserver \in BOOLEAN
    /\ eEventPath \in BOOLEAN
    /\ seen = {}
    /\ eventLog = <<>>
    /\ writeAttempts = <<>>
    /\ observed = <<>>
    /\ delivered = <<>>
    /\ emitCalls = [p \in RawPairs |-> 0]
    /\ ePc = [t \in Threads |-> "idle"]
    /\ eArg = [t \in Threads |-> NoArg]
    /\ modules = <<>>
    /\ SchedIdle
    /\ HttpIdle
    /\ SnapIdle
    /\ DecideIdle
    /\ QueueIdle
    /\ PortIdle
    /\ ReconIdle
    /\ BackoffIdle
    /\ WebIdle
    /\ LayerIdle
    /\ ChainIdle

\* emit calls made one after the other, on the thread of the event loop
NextEmitSeq ==
    \/ \E p \in RawPairs : EmitEnter("loop", p[1], p[2])
    \/ \E ok \in WriteOutcomes, cb \in ObserverOutcomes : EmitCommit("loop", ok, cb)

SpecEmitSeq == InitEmit /\ [][NextEmitSeq]_vars

\* emit calls made from the event loop and from a worker thread
NextEmit ==
    \/ \E t \in Threads, p \in RawPairs : EmitEnter(t, p[1], p[2])
    \/ \E t \in Threads, ok \in WriteOutcomes, cb \in ObserverOutcomes : EmitCommit(t, ok, cb)

SpecEmit == InitEmit /\ [][NextEmit]_vars

InitSnapshot ==
    /\ sPydantic \in BOOLEAN
    /\ sCtx \in Contexts
    /\ sFile = [st |-> "absent", bytes |-> [gz |-> "plain", utf8 |-> FALSE, text |-> NoDoc]]
    /\ sFresh = FALSE
    /\ sLoad = [kind |-> "none", top |-> "object", value |-> EmptyState, exc |-> "",
                file |-> sFile, fresh |-> FALSE]
    /\ sWriter = "idle"
    /\ sPrev = sFile
    /\ modules = <<>>
    /\ SchedIdle
    /\ HttpIdle
    /\ EmitIdle
    /\ DecideIdle
    /\ QueueIdle
    /\ PortIdle
    /\ ReconIdle
    /\ BackoffIdle
    /\ WebIdle
    /\ LayerIdle
    /\ ChainIdle

NextSnapshot ==
    \/ SaveState
    \/ TruncateFile
    \/ \E f \in ForeignFiles : ReplaceFile(f)
    \/ LoadStateCall

SpecSnapshot == InitSnapshot /\ [][NextSnapshot]_vars

InitSnapshotWrite ==
    /\ sPydantic \in BOOLEAN
    /\ sCtx \in Contexts
    /\ sFile \in {AbsentFile} \cup {SavedFile(c) : c \in PrevContexts}
    /\ sFresh = FALSE
    /\ sLoad = [kind |-> "none", top |-> "object", value |-> EmptyState, exc |-> "",
                file |-> sFile, fresh |-> FALSE]
    /\ sWriter = "idle"
    /\ sPrev = sFile
    /\ modules = <<>>
    /\ SchedIdle
    /\ HttpIdle
    /\ EmitIdle
    /\ DecideIdle
    /\ QueueIdle
    /\ PortIdle
    /\ ReconIdle
    /\ BackoffIdle
    /\ WebIdle
    /\ LayerIdle
    /\ ChainIdle

NextSnapshotWrite ==
    \/ WriteOpen
    \/ WriteSome
    \/ WriteRest
    \/ WriterKilled
    \/ LoadStateCall

SpecSnapshotWrite == InitSnapshotWrite /\ [][NextSnapshotWrite]_vars

InitDecision ==
    /\ dResult \in ProbeResults
    /\ dTasks = <<>>
    /\ dPc = "idle"
    /\ modules = <<>>
    /\ SchedIdle
    /\ HttpIdle
    /\ EmitIdle
    /\ SnapIdle
    /\ QueueIdle
    /\ PortIdle
    /\ ReconIdle
    /\ BackoffIdle
    /\ WebIdle
    /\ LayerIdle
    /\ ChainIdle

NextDecision ==
    \/ EvaluateCall
    \/ \E r \in ProbeResults : NextProbeResult(r)

SpecDecision == InitDecision /\ [][NextDecision]_vars

InitQueue ==
    /\ qSeeds \in SeqsUpTo(SeedStrings, MaxSeeds)
    /\ queue = <<>>
    /\ qSeen = {}
    /\ qPc = "start"
    /\ qTarget = <<>>
    /\ qTasks = <<>>
    /\ newEndpoints = <<>>
    /\ qProbed = <<>>
    /\ qPlaced = <<>>
    /\ qReported = {}
    /\ qLast = NoTask
    /\ modules = <<>>
    /\ SchedIdle
    /\ HttpIdle
    /\ EmitIdle
    /\ SnapIdle
    /\ DecideIdle
    /\ PortIdle
    /\ ReconIdle
    /\ BackoffIdle
    /\ WebIdle
    /\ LayerIdle
    /\ ChainIdle

NextQueue ==
    \/ QueueStart
    \/ PopSeen
    \/ \E r \in QueueProbeResults : PopProbe(r)
    \/ \E d \in SeqsUpTo(EndpointPool, MaxFound) : ExecuteTask(d)
    \/ QueueReturns

SpecQueue == InitQueue /\ [][NextQueue]_vars

\* every probe and every task returns, so the loop always takes its next step
SpecQueueFair == SpecQueue /\ WF_vars(NextQueue)

\* the loop with a probe and task handlers that may raise
NextQueueRaising ==
    \/ QueueStart
    \/ PopSeen
    \/ \E r \in QueueProbeResults : PopProbe(r)
    \/ PopProbeRaises
    \/ \E d \in SeqsUpTo(EndpointPool, MaxFound) : ExecuteTask(d)
    \/ \E d \in SeqsUpTo(EndpointPool, MaxFound) : ExecuteTaskRaises(d)
    \/ QueueReturns

SpecQueueRaising == InitQueue /\ [][NextQueueRaising]_vars

InitPorts ==
    /\ pPorts \in SeqsUpTo(PortPool, MaxPorts)
    /\ pMaxConcurrent \in -1..MaxConcurrent
    /\ pOnFound \in {"none", "returns", "raises"}
    /\ pPc = "start"
    /\ pSem = 0
    /\ pTask = <<>>
    /\ pOutcome = <<>>
    /\ pResults = <<>>
    /\ pOpenPorts = {}
    /\ modules = <<>>
    /\ SchedIdle
    /\ HttpIdle
    /\ EmitIdle
    /\ SnapIdle
    /\ DecideIdle
    /\ QueueIdle
    /\ ReconIdle
    /\ BackoffIdle
    /\ WebIdle
    /\ LayerIdle
    /\ ChainIdle

NextPorts ==
    \/ ScanStart
    \/ \E i \in 1..MaxPorts : ScanAcquire(i)
    \/ \E i \in 1..MaxPorts, o \in ConnectOutcomes : ScanFinish(i, o)
    \/ ScanReturns

SpecPorts == InitPorts /\ [][NextPorts]_vars

InitRecon ==
    /\ modules \in ChainsFrom(1, ReconMaxEdges, 0)
    /\ SchedHeld
    /\ \E c \in TargetCases : rTarget = c[1] /\ rDns = c[2]
    /\ rAllowInternal \in BOOLEAN
    /\ rResume \in BOOLEAN
    /\ rPc = "start"
    /\ rScope = NoScope
    /\ rOutcome = NoOutcome
    /\ sPydantic = FALSE
    /\ sCtx = StateOf(MaxListLen, {80}, TRUE)
    /\ sFile \in {AbsentFile, SavedFile(StateOf(0, {}, FALSE))}
    /\ sFresh = FALSE
    /\ sLoad = [kind |-> "none", top |-> "object", value |-> EmptyState, exc |-> "",
                file |-> sFile, fresh |-> FALSE]
    /\ sWriter = "idle"
    /\ sPrev = sFile
    /\ HttpIdle
    /\ EmitIdle
    /\ DecideIdle
    /\ QueueIdle
    /\ PortIdle
    /\ BackoffIdle
    /\ WebIdle
    /\ LayerIdle
    /\ ChainIdle

NextRecon ==
    \/ ReconResume
    \/ GuardInternalTarget
    \/ ResolveStep
    \/ CreateLayerTasks
    \/ \E n \in ChainNames : RunModuleBegin(n)
    \/ \E n \in ChainNames : RunModuleReturn(n)
    \/ \E n \in ChainNames : RunModuleRaise(n)
    \/ GatherReturns
    \/ ExecuteLayersReturns
    \/ ReconSaveReturns
    \/ \E at \in {"open", "write"} : ReconSaveRaises(at)

SpecRecon == InitRecon /\ [][NextRecon]_vars

\* what the state path may hold when run_full_recon is called with resume
ResumeFiles == ForeignFiles \cup {SavedFile(c) : c \in Contexts}

\* run_full_recon over whatever lies at the state path, with and without pydantic
InitResume ==
    /\ modules \in ChainsFrom(1, 0, 0)
    /\ SchedHeld
    /\ \E c \in TargetCases : rTarget = c[1] /\ rDns = c[2]
    /\ rAllowInternal \in BOOLEAN
    /\ rResume \in BOOLEAN
    /\ rPc = "start"
    /\ rScope = NoScope
    /\ rOutcome = NoOutcome
    /\ sPydantic \in BOOLEAN
    /\ sCtx = StateOf(MaxListLen, {80}, TRUE)
    /\ sFile \in ResumeFiles
    /\ sFresh = FALSE
    /\ sLoad = [kind |-> "none", top |-> "object", value |-> EmptyState, exc |-> "",
                file |-> sFile, fresh |-> FALSE]
    /\ sWriter = "idle"
    /\ sPrev = sFile
    /\ HttpIdle
    /\ EmitIdle
    /\ DecideIdle
    /\ QueueIdle
    /\ PortIdle
    /\ BackoffIdle
    /\ WebIdle
    /\ LayerIdle
    /\ ChainIdle

SpecResume == InitResume /\ [][NextRecon]_vars

InitBackoff ==
    /\ bAttempt \in 1..MaxRetries
    /\ bFactor \in 0..MaxFactor
    /\ bJitter \in -1..MaxJitter
    /\ bHeaders \in HeaderCases
    /\ bCall = "none"
    /\ bDelay = 0
    /\ modules = <<>>
    /\ SchedIdle
    /\ HttpIdle
    /\ EmitIdle
    /\ SnapIdle
    /\ DecideIdle
    /\ QueueIdle
    /\ PortIdle
    /\ ReconIdle
    /\ WebIdle
    /\ LayerIdle
    /\ ChainIdle

NextBackoff ==
    \/ ComputeBackoffCall
    \/ RetryAfterDelayCall

SpecBackoff == InitBackoff /\ [][NextBackoff]_vars

InitWeb ==
    /\ wHosts \in HostLists
    /\ wOpen \in SUBSET (Range(wHosts) \X WebPortPool)
    /\ wOnFound \in {"none", "returns", "raises"}
    /\ wPc = "start"
    /\ wProbed = {}
    /\ wResults = <<>>
    /\ wIdx = 0
    /\ wPortMap = {}
    /\ wUrls = <<>>
    /\ wOutcome = "none"
    /\ modules = <<>>
    /\ SchedIdle
    /\ HttpIdle
    /\ EmitIdle
    /\ SnapIdle
    /\ DecideIdle
    /\ QueueIdle
    /\ PortIdle
    /\ ReconIdle
    /\ BackoffIdle
    /\ LayerIdle
    /\ ChainIdle

NextWeb ==
    \/ BatchGather
    \/ BatchHostOpen
    \/ BatchHostClosed
    \/ BatchReturns

SpecWeb == InitWeb /\ [][NextWeb]_vars

InitLayer ==
    /\ cPlan \in LayerPlans
    /\ cStep = [u \in Range(LayerUnits) |-> 0]
    /\ cDone = {}
    /\ cFindings = <<>>
    /\ cNucleiRaw = NoValue
    /\ cErrors = <<>>
    /\ cExtra = {}
    /\ cTimings = {}
    /\ cPc = "gather"
    /\ modules = <<>>
    /\ SchedIdle
    /\ HttpIdle
    /\ EmitIdle
    /\ SnapIdle
    /\ DecideIdle
    /\ QueueIdle
    /\ PortIdle
    /\ ReconIdle
    /\ BackoffIdle
    /\ WebIdle
    /\ ChainIdle

NextLayer ==
    \/ \E u \in Range(LayerUnits) : UnitWrites(u)
    \/ \E u \in Range(LayerUnits) : UnitReturns(u)
    \/ \E u \in Range(LayerUnits) : UnitRaises(u)
    \/ LayerGathered

SpecLayer == InitLayer /\ [][NextLayer]_vars

InitChain ==
    /\ fEnv \in Environments
    /\ fCtx = EmptyContext
    /\ fLayer = 1
    /\ fDone = {}
    /\ fErrors = <<>>
    /\ fPc = "layers"
    /\ fFile = [st |-> "absent", bytes |-> [gz |-> "plain", utf8 |-> FALSE, text |-> NoDoc]]
    /\ fLoad = Return(EmptyState)
    /\ modules = <<>>
    /\ SchedIdle
    /\ HttpIdle
    /\ EmitIdle
    /\ SnapIdle
    /\ DecideIdle
    /\ QueueIdle
    /\ PortIdle
    /\ ReconIdle
    /\ BackoffIdle
    /\ WebIdle
    /\ LayerIdle

NextChain ==
    \/ \E u \in ChainUnits : ChainRunModule(u)
    \/ ChainSave
    \/ ChainLoad

SpecChain == InitChain /\ [][NextChain]_vars

(***************************************************************************)
(* Properties of the scheduler                                             *)
(***************************************************************************)
EnabledNames == {m.name : m \in {x \in Range(modules) : x.enabled}}

\* "a depends on b", both enabled: read off the unit descriptors
DependsOn(a, b) ==
    /\ a \in EnabledNames
    /\ b \in EnabledNames
    /\ InSeq(b, ModuleNamed(modules, a).depends_on)

RECURSIVE Ancestors(_, _)
Ancestors(S, k) ==
    IF k = 0 THEN S
    ELSE Ancestors(S \cup {b \in EnabledNames : \E a \in S : DependsOn(a, b)}, k - 1)

HasCycle ==
    \E n \in EnabledNames :
        n \in Ancestors({b \in EnabledNames : DependsOn(n, b)}, NumUnits)

Placements(n) ==
    {<<i, j>> \in (1..Len(layers)) \X (1..NumUnits) :
        j <= Len(layers[i]) /\ layers[i][j] = n}

LayerOf(n) == CHOOSE i \in 1..Len(layers) : InSeq(n, layers[i])

\* C1: when the dependency graph of the enabled units is acyclic, the resolved
\* layers hold every enabled unit exactly once, and every unit lies in a
\* strictly later layer than each enabled unit it depends on.
C1_LayersRespectDependencies ==
    (schedPc # "init" /\ ~HasCycle) =>
        /\ \A n \in EnabledNames : Cardinality(Placements(n)) = 1
        /\ \A a \in EnabledNames, b \in EnabledNames :
               DependsOn(a, b) => LayerOf(b) < LayerOf(a)

C1_Witness ==
    /\ schedPc # "init"
    /\ ~HasCycle
    /\ Len(layers) = 3
    /\ \E a \in EnabledNames, b \in EnabledNames, c \in EnabledNames :
           /\ DependsOn(a, b) /\ DependsOn(a, c) /\ DependsOn(b, c)

\* C2: no unit of a later layer has its run started before every unit of each
\* earlier layer has finished (returned or raised); units of one layer run at
\* the same time.
C2_LayerBarrier ==
    \A i \in 1..Len(layers), j \in 1..Len(layers) :
        i < j =>
            \A u \in Range(layers[j]) :
                task[u] # "none" =>
                    \A v \in Range(layers[i]) : task[v] = "finished"

C2_Witness ==
    /\ layerIdx = 2
    /\ raised # {}
    /\ \E u \in Range(layers[2]), v \in Range(layers[2]) :
           u # v /\ task[u] = "running" /\ task[v] = "running"

\* C3: a unit whose run raises is recorded in the error list and the run goes
\* on: the scheduler never aborts, and when it is done every enabled unit,
\* siblings and later layers included, has been run and has finished.
C3_FailureIsolated ==
    /\ schedPc # "aborted"
    /\ \A n \in raised :
           Cardinality({k \in 1..Len(errors) : errors[k].module = n}) = 1
    /\ (raised # {} /\ schedPc # "done") => ENABLED NextSched
    /\ schedPc = "done" =>
           \A n \in EnabledNames : runCalls[n] = 1 /\ task[n] = "finished"

C3_Witness ==
    /\ schedPc = "done"
    /\ Len(layers) >= 2
    /\ \E u \in Range(layers[1]), v \in Range(layers[1]) :
           /\ u \in raised
           /\ v \notin raised
           /\ u # v
    /\ \A w \in Range(layers[2]) : runCalls[w] = 1

\* C4: when the enabled dependency graph has a cycle (a self-dependency
\* included) the layers are the enabled units, one per layer, in declaration
\* order, and by the end of the run each enabled unit's run was invoked once.
C4_CycleFallback ==
    (schedPc # "init" /\ HasCycle) =>
        /\ fallbackLogged
        /\ layers = [i \in 1..Len(ActiveNames(modules)) |->
                        <<ActiveNames(modules)[i]>>]
        /\ \A n \in ChainNames : runCalls[n] <= 1
        /\ schedPc = "done" =>
               \A n \in ChainNames :
                   runCalls[n] = (IF n \in EnabledNames THEN 1 ELSE 0)

C4_Witness ==
    /\ schedPc = "done"
    /\ HasCycle
    /\ Cardinality(EnabledNames) = NumUnits
    /\ \E n \in EnabledNames : DependsOn(n, n)
    /\ \E a \in EnabledNames, b \in EnabledNames :
           a # b /\ DependsOn(a, b) /\ ~DependsOn(b, a)

ResolvedDeps(n) == {b \in EnabledNames : DependsOn(n, b)}

Greatest(S) == CHOOSE x \in S : \A y \in S : y <= x

\* the layer index of a unit, counted from 0
LayerIndex(n) == LayerOf(n) - 1

\* C35: when the dependency graph of the enabled units is acyclic, a unit
\* without resolved dependency has layer index 0 and every other enabled
\* unit has layer index 1 + the greatest layer index of its resolved
\* dependencies, also when depends_on names a dependency more than once.
C35_EarliestLayer ==
    (schedPc # "init" /\ ~HasCycle) =>
        \A n \in EnabledNames :
            LayerIndex(n) =
                IF ResolvedDeps(n) = {} THEN 0
                ELSE 1 + Greatest({LayerIndex(d) : d \in ResolvedDeps(n)})

\* a unit names one resolved dependency twice and the chain has three layers
C35_Witness ==
    /\ schedPc # "init"
    /\ ~HasCycle
    /\ Len(layers) = 3
    /\ \E n \in EnabledNames :
           LET deps == ModuleNamed(modules, n).depends_on
           IN  /\ Len(deps) = 2
               /\ deps[1] = deps[2]
               /\ deps[1] \in EnabledNames
               /\ LayerIndex(n) = 2

\* C21: after a run over a chain that contains a disabled unit, that unit's
\* run was never invoked and the timing map holds an entry for its name with
\* elapsed time zero.
C21_DisabledUnitZeroTiming ==
    schedPc = "done" =>
        \A i \in 1..Len(modules) :
            ~modules[i].enabled =>
                (runCalls[modules[i].name] = 0 /\ timings[modules[i].name] = "zero")

\* the entries of ctx.extra["module_errors"] that name unit n
ErrorEntries(n) == {k \in 1..Len(extraErrors) : extraErrors[k].module = n}

\* C22: at the end of _execute_layers the extension map holds the module-error
\* list iff at least one unit's run raised; the list then holds exactly one
\* {unit, error} entry per unit whose run raised and none for any other unit.
C22_ModuleErrorsExact ==
    schedPc = "done" =>
        /\ extraErrors # <<>> <=> raised # {}
        /\ \A n \in ChainNames :
               Cardinality(ErrorEntries(n)) = IF n \in raised THEN 1 ELSE 0
        /\ \A k \in 1..Len(extraErrors) : extraErrors[k].error = ErrorText

C22_Witness ==
    /\ schedPc = "done"
    /\ Len(extraErrors) = 2
    /\ \E n \in ChainNames : runCalls[n] = 1 /\ n \notin raised

\* the dependencies of unit n that name a disabled or an absent unit
DroppedDeps(n) ==
    {d \in Range(ModuleNamed(modules, n).depends_on) : d \notin EnabledNames}

\* the chain with these dependencies taken out of every depends_on
WithoutDroppedEdges ==
    [i \in 1..Len(modules) |->
        [modules[i] EXCEPT !.depends_on = SelectSeq(@, LAMBDA d : d \in EnabledNames)]]

\* C23: a dependency that names a disabled or absent unit is dropped: the
\* layers are those of the chain without that edge, the fallback is taken
\* only when the enabled units depend on each other in a cycle, and the
\* dependent unit is placed once and has been run when the run is done.
C23_MissingDependencyDropped ==
    schedPc # "init" =>
        /\ layers = ResolveModuleLayers(WithoutDroppedEdges)
        /\ fallbackLogged => HasCycle
        /\ \A n \in EnabledNames :
               DroppedDeps(n) # {} =>
                   /\ Cardinality(Placements(n)) = 1
                   /\ schedPc = "done" => runCalls[n] = 1

C23_Witness ==
    /\ schedPc = "done"
    /\ ~fallbackLogged
    /\ \E n \in EnabledNames, m \in EnabledNames :
           /\ AbsentName \in DroppedDeps(n)
           /\ DroppedDeps(m) \cap ChainNames # {}
           /\ runCalls[n] = 1
           /\ runCalls[m] = 1

(***************************************************************************)
(* Properties of HttpClient.request                                        *)
(***************************************************************************)
BudgetExhausted == hPc = "done" /\ Len(hOutcomes) = hAttempts
FinalOutcome == hOutcomes[Len(hOutcomes)]

\* C5: when the attempt budget is exhausted and the final attempt received a
\* 5xx response, or a 429 response with throttling enabled, request returns
\* that response and raises nothing.
C5_ExhaustionReturnsLastResponse ==
    (/\ BudgetExhausted
     /\ FinalOutcome.kind = "resp"
     /\ \/ FinalOutcome.status >= 500
        \/ FinalOutcome.status = 429 /\ hThrottle)
    => hResult = Returned(FinalOutcome.status)

\* C6: request sends at most maxAttempts times (the per-request override if
\* one is given, else the client default, never fewer than 1); when every
\* attempt fails at transport level it raises, after exactly maxAttempts
\* sends, the failure of the final attempt.
C6_AttemptBudget ==
    LET maxAttempts == Max(1, IF hOverride # NoValue THEN hOverride[1] ELSE hDefault)
    IN  /\ Len(hOutcomes) <= maxAttempts
        /\ (/\ hPc = "done"
            /\ \A k \in 1..Len(hOutcomes) : hOutcomes[k].kind = "exc")
           => /\ Len(hOutcomes) = maxAttempts
              /\ hResult = Raised(maxAttempts)

\* attempt k was answered by a response with a status in S
Answered(k, S) ==
    /\ k <= Len(hOutcomes)
    /\ hOutcomes[k].kind = "resp"
    /\ hOutcomes[k].status \in S

\* after attempt k the request slept with a delay of the given kind and then
\* went on to attempt k + 1, or is still sleeping
RetriedAfter(k, kind) ==
    /\ \E i \in 1..Len(hSleeps) : hSleeps[i] = [attempt |-> k, kind |-> kind]
    /\ \/ hPc = "sleep" /\ hAttempt = k /\ hResult = NoResult
       \/ hAttempt > k

\* C24: on a 5xx response request retries after a backoff delay while
\* attempts remain; a 5xx on the last attempt is returned as the result.
C24_ServerErrorRetried ==
    \A k \in 1..Len(hOutcomes) :
        Answered(k, {500, 503}) =>
            IF k < hAttempts THEN RetriedAfter(k, "backoff")
            ELSE hPc = "done" /\ hResult = Returned(hOutcomes[k].status)

C24_Witness ==
    /\ hAttempts = 3
    /\ Answered(1, {500})
    /\ Answered(2, {503})
    /\ Answered(3, {503})
    /\ hResult = Returned(503)

\* C25: with throttling enabled a 429 received on an attempt that is not the
\* last is never returned: request waits and sends the next attempt, and
\* that attempt is one of the attempts of the budget.
C25_ThrottledNotReturned ==
    hThrottle =>
        /\ Len(hOutcomes) <= hAttempts
        /\ \A k \in 1..Len(hOutcomes) :
               (Answered(k, {429}) /\ k < hAttempts) =>
                   /\ RetriedAfter(k, "retry_after")
                   /\ hPc = "done" => Len(hOutcomes) > k

C25_Witness ==
    /\ hThrottle
    /\ hAttempts = 3
    /\ Answered(1, {429})
    /\ Answered(2, {429})
    /\ Answered(3, {200})
    /\ hResult = Returned(200)

(***************************************************************************)
(* Properties of ReconContext.emit                                         *)
(***************************************************************************)
Count(log, cat, value) ==
    Cardinality({k \in 1..Len(log) : log[k] = [category |-> cat, value |-> value]})

AllIdle == \A t \in Threads : ePc[t] = "idle"

\* emit was called with a pair, both non-empty, that normalizes to (cat, value)
Emitted(cat, value) ==
    \E p \in RawPairs :
        /\ emitCalls[p] >= 1
        /\ p[1] # "" /\ p[2] # ""
        /\ NormalizeCategory(p[1]) = cat /\ p[2] = value

NormPairs == {NormalizeCategory(c) : c \in Categories} \X Values

\* C7 as stated: N >= 1 emit calls with the same (category, value) cause
\* exactly one observer invocation and exactly one event-log record for the
\* pair (an observer and an event log being configured, no write failing).
C7_EveryPairSurfacedOnce ==
    (AllIdle /\ eObserver /\ eEventPath /\ Len(eventLog) = Len(writeAttempts)) =>
        \A p \in RawPairs :
            emitCalls[p] >= 1 =>
                /\ Count(observed, NormalizeCategory(p[1]), p[2]) = 1
                /\ Count(eventLog, NormalizeCategory(p[1]), p[2]) = 1

\* C7, amended: N >= 1 sequential emit calls with the same non-empty category
\* (compared after lowercasing and stripping) and the same non-empty value
\* cause exactly one observer invocation, when an observer is set, and exactly
\* one event-log write, when an event path is set, whose record is in the log
\* unless the write failed; calls with an empty category or value cause none.
C7_NonEmptyPairSurfacedOnce ==
    AllIdle =>
        \A p \in NormPairs :
            LET n == IF Emitted(p[1], p[2]) THEN 1 ELSE 0
            IN  /\ Count(observed, p[1], p[2]) = (IF eObserver THEN n ELSE 0)
                /\ Count(writeAttempts, p[1], p[2]) = (IF eEventPath THEN n ELSE 0)
                /\ Count(eventLog, p[1], p[2]) <= Count(writeAttempts, p[1], p[2])
                /\ Len(eventLog) = Len(writeAttempts) =>
                       Count(eventLog, p[1], p[2]) = Count(writeAttempts, p[1], p[2])

C7_Witness ==
    /\ AllIdle
    /\ eObserver /\ eEventPath
    /\ emitCalls[<<"web", "x">>] = 2
    /\ emitCalls[<<"Web ", "x">>] = 1
    /\ Count(observed, "web", "x") = 1
    /\ Count(eventLog, "web", "x") = 1

\* C8: when emit is called concurrently with the same (category, value), the
\* observer is invoked at most once and the event log written at most once
\* for the pair.
C8_ConcurrentEmitAtMostOnce ==
    \A p \in NormPairs :
        /\ Count(observed, p[1], p[2]) <= 1
        /\ Count(writeAttempts, p[1], p[2]) <= 1

(***************************************************************************)
(* Properties of the snapshot store                                        *)
(***************************************************************************)
\* the file holds a JSON object that satisfies the schema of ReconStateModel
IsSnapshot(file) ==
    /\ file.st = "ok"
    /\ DecodedText(file.bytes) # <<>>
    /\ DecodedText(file.bytes)[1].json
    /\ DecodedText(file.bytes)[1].top = "object"
    /\ SchemaValid(DecodedText(file.bytes)[1].fields)

\* C9: whatever the state path holds that is no valid snapshot (nothing, an
\* unreadable file, a truncated gzip, non-UTF-8 bytes, non-JSON text, JSON
\* that is no object, an object failing the schema), load_state returns the
\* empty state and raises nothing.
C9_BadSnapshotIsNoSnapshot ==
    (sLoad.kind # "none" /\ ~IsSnapshot(sLoad.file)) =>
        /\ sLoad.kind = "return"
        /\ sLoad.value = EmptyState

RoundTripFields == Range(StateFields) \ {"config"}

\* C10: load_state of the file save_state wrote returns scope, subdomains,
\* base ports (integer keys), web ports, transcript, URLs, findings,
\* screenshots, extension map and timings equal to those saved.
C10_SnapshotRoundTrip ==
    (sLoad.kind # "none" /\ sLoad.fresh) =>
        /\ sLoad.kind = "return"
        /\ \A f \in RoundTripFields : sLoad.value[f] = sCtx[f]

\* C11: save_state writes the snapshot atomically: whenever load_state reads
\* the path, also while the writer is part-way or after it was interrupted,
\* the file it reads is the complete previous snapshot (or no file, when
\* there was none) or the complete new snapshot.
C11_SnapshotWriteAtomic ==
    (sLoad.kind # "none" /\ sLoad.file = sFile) =>
        sLoad.file \in {sPrev, SavedFile(sCtx)}

(***************************************************************************)
(* Properties of DecisionEngine.evaluate                                   *)
(***************************************************************************)
TasksOfType(tasks, ty) == {k \in 1..Len(tasks) : tasks[k].task_type = ty}

BoolToNat(b) == IF b THEN 1 ELSE 0

\* C18: evaluate applies every rule on its own: the result holds a bypass
\* task iff the status is 403, a content-analysis task iff the status is 200
\* and the content length is above 0, a fuzzing task iff the status is 200,
\* one Jenkins task iff the Jenkins tag is present and one WordPress task iff
\* the WordPress tag is present, and nothing else; with no status and no
\* matching tag the list is empty.
C18_RulesIndependent ==
    dPc = "evaluated" =>
        LET status == dResult.status_code
            len == dResult.content_length
            techs == dResult.technologies
            n(ty) == Cardinality(TasksOfType(dTasks, ty))
        IN  /\ n("403_BYPASS") = BoolToNat(status = Some(403))
            /\ n("JS_ANALYSIS") =
                   BoolToNat(status = Some(200) /\ len # NoValue /\ len[1] > 0)
            /\ n("FUZZING") = BoolToNat(status = Some(200))
            /\ n("NUCLEI_SCAN") = BoolToNat("Jenkins" \in Range(techs))
            /\ n("WP_SCAN") = BoolToNat("WordPress" \in Range(techs))
            /\ Len(dTasks) = n("403_BYPASS") + n("JS_ANALYSIS") + n("FUZZING")
                             + n("NUCLEI_SCAN") + n("WP_SCAN")
            /\ (status = NoValue /\ Range(techs) \cap {"Jenkins", "WordPress"} = {})
                   => dTasks = <<>>

C18_Witness ==
    /\ dPc = "evaluated"
    /\ dResult.status_code = Some(200)
    /\ dResult.content_length = Some(120)
    /\ dResult.technologies = <<"WordPress", "Jenkins">>
    /\ Len(dTasks) = 4

(***************************************************************************)
(* Properties of run_task_queue                                            *)
(***************************************************************************)
\* the positions of target x in the sequence s
Positions(s, x) == {k \in 1..Len(s) : s[k] = x}

FirstPosition(s, x) == CHOOSE k \in Positions(s, x) : \A m \in Positions(s, x) : k <= m

\* C12: for any seed list, also one whose seeds repeat or normalize to the
\* same URL, and any discovered endpoints, each distinct target URL is probed
\* at most once.
C12_ProbedAtMostOnce ==
    \A x \in Range(qProbed) : Cardinality(Positions(qProbed, x)) = 1

C12_Witness ==
    /\ qPc = "done"
    /\ Len(qSeeds) = 2
    /\ qSeeds[1] # qSeeds[2]
    /\ NormalizeTarget(qSeeds[1]) = NormalizeTarget(qSeeds[2])
    /\ \E r \in qReported : r.ep \in Range(qProbed) /\ Len(qProbed) = 2

\* C13: targets are probed in the order they were placed in the queue: when
\* a target is probed, every target placed before it has been probed before.
C13_FifoOrder ==
    \A j \in 1..Len(qProbed) :
        /\ Positions(qPlaced, qProbed[j]) # {}
        /\ \A p \in 1..(FirstPosition(qPlaced, qProbed[j]) - 1) :
               \E i \in 1..(j - 1) : qProbed[i] = qPlaced[p]

C13_Witness ==
    /\ qPc = "done"
    /\ Len(qSeeds) = 2
    /\ Len(qProbed) = 4
    /\ \E r \in qReported : r.by = qProbed[1] /\ r.ep = qProbed[3]

\* C14: an endpoint B that a task for target A reported while B was neither
\* seen nor queued is probed exactly once, after A, before the call returns.
C14_DiscoveredProbedOnceAfter ==
    \A r \in qReported :
        /\ Cardinality(Positions(qProbed, r.ep)) <= 1
        /\ \A j \in Positions(qProbed, r.ep) :
               \E i \in 1..(j - 1) : qProbed[i] = r.by
        /\ qPc = "done" => Cardinality(Positions(qProbed, r.ep)) = 1

C14_Witness ==
    /\ qPc = "done"
    /\ qSeeds = <<Url("http://", "a.test", 0)>>
    /\ qReported = {[by |-> Url("http://", "a.test", 0), ep |-> Url("http://", "b.test", 0)]}
    /\ qProbed = <<Url("http://", "a.test", 0), Url("http://", "b.test", 0)>>

\* C15: with a finite set of discoverable endpoints and probes and tasks that
\* return, run_task_queue terminates, and it returns only with an empty queue.
C15_QueueTerminates ==
    /\ <>(qPc = "done")
    /\ [](qPc = "done" => queue = <<>>)

C15_Witness ==
    /\ qPc = "done"
    /\ queue = <<>>
    /\ Cardinality(qSeen) = Cardinality(EndpointPool)

\* the text starts with http:// or https:// and ends with no slash
IsNormalized(url) == url.scheme \in {"http://", "https://"} /\ url.slashes = 0

\* C28: every URL held in the queue, from a seed or discovered by a task, is
\* in normalized form, so no two queue entries are spellings of one target.
C28_QueueNormalized ==
    /\ \A i \in 1..Len(queue) : IsNormalized(queue[i])
    /\ \A i \in 1..Len(queue), j \in 1..Len(queue) :
           NormalizeTarget(queue[i]) = NormalizeTarget(queue[j]) => queue[i] = queue[j]

\* the task types _execute_task has a module for
HandledTypes == {"403_BYPASS", "FUZZING", "JS_ANALYSIS"}

\* the next _execute_task call is for a task whose type has no handler
UnknownTaskNext == qPc = "tasks" /\ Head(qTasks).task_type \notin HandledTypes

\* the call ran no module and changed nothing but the position in the tasks
SkippedStep ==
    /\ qLast' = [task_type |-> Head(qTasks).task_type, handler |-> "none",
                 outcome |-> "returned"]
    /\ qTasks' = Tail(qTasks)
    /\ qPc' = IF Tail(qTasks) = <<>> THEN "loop" ELSE "tasks"
    /\ UNCHANGED <<queue, qSeen, qTarget, qProbed, qPlaced, qReported>>

\* C29: a task whose type has no handler is skipped: no module runs for it,
\* nothing is raised, the next task of the target is the one executed next,
\* and when the queue returns no task and no queued target is left over.
C29_UnknownTaskSkipped ==
    /\ [][UnknownTaskNext => SkippedStep]_vars
    /\ [](qPc = "done" =>
             (qTasks = <<>> /\ queue = <<>> /\ Range(qPlaced) = Range(qProbed)))

\* an unknown task has just been skipped; tasks of the target and queued
\* targets remain
C29_Witness ==
    /\ qPc = "tasks"
    /\ qLast = [task_type |-> "NUCLEI_SCAN", handler |-> "none", outcome |-> "returned"]
    /\ Head(qTasks).task_type = "FUZZING"
    /\ queue # <<>>

(***************************************************************************)
(* Properties of quick_port_scan_async                                     *)
(***************************************************************************)
\* C16: the returned map's keys are exactly the requested ports whose connect
\* succeeded, each mapped to its label of the service table or to "unknown";
\* a port whose connect timed out, was refused or was unreachable is absent.
C16_OpenPortsExact ==
    pPc = "done" =>
        pOpenPorts = {<<pPorts[i], ServiceLabel(pPorts[i])>> :
                         i \in {k \in 1..Len(pPorts) : pOutcome[k] = "open"}}

InFlight == {i \in 1..Len(pTask) : pTask[i] = "connecting"}

\* C17: at every instant the number of connect attempts in flight is at most
\* max(1, max_concurrent).
C17_ConcurrencyBound ==
    Cardinality(InFlight) <= Max(1, pMaxConcurrent)

C17_Witness ==
    /\ Len(pPorts) = MaxPorts
    /\ pMaxConcurrent = 2
    /\ Cardinality(InFlight) = 2
    /\ \E i \in 1..Len(pTask) : pTask[i] = "waiting"

(***************************************************************************)
(* Properties of run_full_recon                                            *)
(***************************************************************************)
\* module.run has been invoked on no unit
NoUnitStarted == \A n \in ChainNames : runCalls[n] = 0

\* every unit that raised has an entry in ctx.extra["module_errors"]
ErrorsRecorded ==
    \A n \in raised : \E i \in 1..Len(extraErrors) : extraErrors[i].module = n

\* the file at the state path is no longer the one the call found there
SnapshotWritten == sFresh \/ sFile # sPrev

\* C19: run_full_recon raises only for a configuration or safety-policy
\* error, and then no unit has started; once scheduling has begun, the call
\* ends by returning the result of the run with the unit errors recorded,
\* also when a unit raised or the snapshot could not be saved.
C19_OnlyPolicyErrorsAbort ==
    /\ rOutcome.kind = "raise" => (rOutcome.exc = "ValueError" /\ NoUnitStarted)
    /\ (rPc = "done" /\ schedPc # "held") =>
           (rOutcome = ReturnsResult("run") /\ ErrorsRecorded)

\* C20: in a call that builds the scope of a target whose address is
\* loopback or link-local, with allow_internal unset, no unit's run is
\* invoked and no snapshot is written, and the call ends raising the safety
\* error; with allow_internal set the call never raises the safety error.
C20_InternalTargetBlocked ==
    /\ ( /\ IsInternal(AddressOf(rTarget, rDns))
         /\ ~rAllowInternal
         /\ rOutcome.from # "snapshot" ) =>
           /\ NoUnitStarted
           /\ ~SnapshotWritten
           /\ rPc = "done" => rOutcome = RaisesError("ValueError")
    /\ rAllowInternal => rOutcome.exc # "ValueError"

(***************************************************************************)
(* Properties of the retry delays                                          *)
(***************************************************************************)
\* backoffFactor * 2^(k-1) for the attempt of the call
BackoffBase == bFactor * (2 ^ (bAttempt - 1))

\* the response carries a Retry-After line, however its name is capitalised
HasRetryAfter == bHeaders # NoValue

\* the number of the Retry-After line, when it is a number
RetryAfterNumber == IF HasRetryAfter THEN ParseFloat(bHeaders[1].value) ELSE NoValue

\* C26: for a 429 response the delay equals the Retry-After value when the
\* header is present and parses as a non-negative number; when it is absent,
\* unparseable or negative the delay is one the backoff formula gives.
C26_RetryAfterDelay ==
    bCall = "retry_after" =>
        IF RetryAfterNumber # NoValue /\ RetryAfterNumber[1] >= 0
        THEN bDelay = RetryAfterNumber[1]
        ELSE bDelay \in ComputeBackoff(bAttempt, bFactor, bJitter)

\* C27 as stated: for every attempt k, backoff factor and jitter (jitter 0
\* included) the delay of _compute_backoff is >= factor * 2^(k-1) and
\* < factor * 2^(k-1) + jitter.
C27_BackoffRange ==
    bCall = "backoff" =>
        (bDelay >= BackoffBase /\ bDelay < BackoffBase + bJitter)

\* C27, amended: the delay is >= factor * 2^(k-1) and <= factor * 2^(k-1) +
\* max(0, jitter); it is < factor * 2^(k-1) + jitter when jitter > 0 and
\* equal to factor * 2^(k-1) when jitter <= 0.
C27_BackoffRangeClosed ==
    bCall = "backoff" =>
        /\ bDelay >= BackoffBase
        /\ bDelay <= BackoffBase + Max(0, bJitter)
        /\ bJitter > 0 => bDelay < BackoffBase + bJitter
        /\ bJitter <= 0 => bDelay = BackoffBase

C27_Witness ==
    /\ bCall = "backoff"
    /\ bAttempt = 3
    /\ bFactor = 2
    /\ bJitter = 2
    /\ bDelay = 9

(***************************************************************************)
(* Properties of run_batch_scan                                            *)
(***************************************************************************)
\* the open ports of a host among those of the claim
OpenWebPorts(h) == {p \in {80, 443, 8080, 8443} : <<h, p>> \in wOpen}

\* the number of entries of urls that are the URL text of (h, p): https for
\* 443 and 8443, http otherwise, the port written unless it is 80 or 443
UrlCount(h, p) ==
    Cardinality({k \in 1..Len(wUrls) :
        /\ wUrls[k].host = h
        /\ wUrls[k].scheme = "https" <=> p \in {443, 8443}
        /\ wUrls[k].scheme = "http" <=> p \notin {443, 8443}
        /\ wUrls[k].suffix = IF p \in {80, 443} THEN NoValue ELSE Some(p)})

\* C30: a run_batch_scan that returns has probed ports 80, 443, 8080 and
\* 8443 of each host and no other port; urls holds exactly one URL per open
\* (host, port) and nothing else, https for 443 and 8443 and http otherwise,
\* the port suffix left out exactly for 80 and 443; the map has an entry,
\* the sorted open ports, exactly for the hosts with an open port.
C30_WebUrlsDerived ==
    wOutcome = "return" =>
        /\ wProbed = Range(wHosts) \X {80, 443, 8080, 8443}
        /\ \A h \in Range(wHosts), p \in WebPortPool :
               UrlCount(h, p) = IF p \in OpenWebPorts(h) THEN 1 ELSE 0
        /\ Len(wUrls) = Cardinality({hp \in wOpen : hp[2] \in {80, 443, 8080, 8443}})
        /\ \A h \in Range(wHosts) :
               IF OpenWebPorts(h) = {}
               THEN \A e \in wPortMap : e.host # h
               ELSE [host |-> h, ports |-> SortedSeq(OpenWebPorts(h))] \in wPortMap
        /\ Cardinality(wPortMap) = Cardinality({h \in Range(wHosts) : OpenWebPorts(h) # {}})

C30_Witness ==
    /\ wOutcome = "return"
    /\ Len(wHosts) = 2
    /\ OpenWebPorts(wHosts[1]) = {80, 443, 8080, 8443}
    /\ OpenWebPorts(wHosts[2]) = {}
    /\ <<wHosts[2], 8000>> \in wOpen
    /\ Len(wUrls) = 4

(***************************************************************************)
(* Properties of the units of one layer                                    *)
(***************************************************************************)
\* what the units' runs write, read off their plans alone
PlannedWrites ==
    UNION {Range(cPlan[u].writes) : u \in Range(LayerUnits)}

PlannedFindings == {w.value : w \in {x \in PlannedWrites : x.op # "set_raw"}}

PlannedRaw == {Some(w.value) : w \in {x \in PlannedWrites : x.op = "set_raw"}}

\* the raising units, in the order in which _execute_layers created their tasks
RaisingInTaskOrder ==
    LET raising == SelectSeq(LayerUnits, LAMBDA u : cPlan[u].raises)
    IN  [i \in 1..Len(raising) |-> [module |-> raising[i]]]

ModuleErrorsItems == {e \in cExtra : e.key = "module_errors"}

\* the accumulators whose final value is a set, a map or a single value
SameFinalSets ==
    /\ Range(cFindings) = PlannedFindings
    /\ Len(cFindings) = Cardinality(PlannedFindings)
    /\ cNucleiRaw \in PlannedRaw \cup {x \in {NoValue} : PlannedRaw = {}}
    /\ cTimings = Range(LayerUnits)
    /\ \A e \in cExtra : e.key = "module_errors"
    /\ ModuleErrorsItems = {} <=> RaisingInTaskOrder = <<>>
    /\ \A e \in ModuleErrorsItems :
          /\ Range(e.value) = Range(RaisingInTaskOrder)
          /\ Len(e.value) = Len(RaisingInTaskOrder)

\* C31 as stated: when the layer has completed, the set of findings and the
\* value of every other accumulator, the module_errors list of the extension
\* map included, are those fixed by what the units write, whatever the order
\* in which their steps were taken.
C31_InterleavingIndependent ==
    cPc = "done" =>
        /\ SameFinalSets
        /\ \A e \in ModuleErrorsItems : e.value = RaisingInTaskOrder

\* C31 amended: when the layer has completed, the findings list and the
\* module_errors list hold the entries fixed by what the units write, each
\* once, in an order that depends on the interleaving; every other
\* accumulator has the value fixed by what the units write.
C31_SameUpToOrder ==
    cPc = "done" => SameFinalSets

\* two units raised and a third wrote findings between the writes of another
C31_Witness ==
    /\ cPc = "done"
    /\ Len(cErrors) = 2
    /\ Len(cFindings) = 4
    /\ cFindings[1].prefix = "(!)"
    /\ cFindings[2].prefix = "[SQLi]"
    /\ cFindings[3].prefix = "(!)"
    /\ cNucleiRaw # NoValue

(***************************************************************************)
(* Properties of run_full_recon: the snapshot of a run                     *)
(***************************************************************************)
UnitsExecuted == \E n \in ChainNames : runCalls[n] > 0

NoUnitPending == \A n \in ChainNames : task[n] \in {"none", "finished"}

\* the file at the state path changes only after the last layer has
\* completed, while no unit is created or running, and as the call's last step
SavedOnlyAfterLastLayer ==
    SnapshotWritten => (schedPc = "done" /\ NoUnitPending /\ rPc = "done")

C33_LogFailureContained == schedPc # "aborted"

(***************************************************************************)
(* Properties of run_full_recon with resume                                *)
(***************************************************************************)
\* load_state was called for the resume and returned a state that is not {}
ResumedNonEmpty ==
    /\ rResume
    /\ sLoad.kind = "return"
    /\ sLoad.value # EmptyState

\* C36: when run_full_recon is called with resume and load_state returns a
\* non-empty state, the call returns the result built from that state,
\* whatever the target; no unit's run is invoked, the scope of the target is
\* not built and the guard not evaluated, and the state path is not written.
C36_ResumeReturnsSnapshot ==
    ResumedNonEmpty =>
        /\ rPc = "done"
        /\ rOutcome = ReturnsResult("snapshot")
        /\ NoUnitStarted
        /\ schedPc = "held"
        /\ rScope = NoScope
        /\ ~SnapshotWritten

(***************************************************************************)
(* Properties of run_task_queue when the probe or a task handler raises    *)
(***************************************************************************)
\* C37: when the probe or a task handler raises, run_task_queue is left by
\* the exception at once: the loop takes no further step, so the tasks of
\* the target that remain are not executed, what the failed handler reported
\* is not queued, and the targets still in the queue are never probed.
C37_NoFailureIsolation ==
    /\ qLast.outcome = "raised" => qPc = "raised"
    /\ qPc = "raised" =>
           /\ qLast.outcome = "raised"
           /\ ~ENABLED NextQueueRaising

\* a task handler raised with the fuzzing task of the target not yet run and
\* a target still waiting in the queue
C37_Witness ==
    /\ qPc = "raised"
    /\ qLast.handler = "JsSpiderModule"
    /\ Len(qTasks) >= 2
    /\ qTasks[2].task_type = "FUZZING"
    /\ queue # <<>>
    /\ \E i \in 1..Len(queue) : ~InSeq(queue[i], qProbed)

\* C38: request sleeps only between consecutive attempts: a request that made
\* n attempts took at most n-1 delays, and the last delay it took came before
\* its final attempt, whatever mix of transport failures, 5xx and 429
\* responses the attempts met.
C38_SleepsOnlyBetweenAttempts ==
    hPc = "done" =>
        /\ Len(hSleeps) <= Len(hOutcomes) - 1
        /\ \A i \in 1..Len(hSleeps) : hSleeps[i].attempt < Len(hOutcomes)


\* C39: a failure of the event-log write or of the progress observer inside
\* emit never reaches the emitting unit; the pair of every attempted write
\* and of every observer call stays in the seen set, so a later emit of the
\* same pair is suppressed (at most one write attempt and one observer call
\* per pair) although the first was not persisted or delivered; and a failed
\* write does not prevent the observer call of that same emit.
C39_SinkFailureContained ==
    /\ \A t \in Threads : ePc[t] # "raised"
    /\ \A k \in 1..Len(writeAttempts) :
           <<writeAttempts[k].category, writeAttempts[k].value>> \in seen
    /\ \A k \in 1..Len(observed) :
           <<observed[k].category, observed[k].value>> \in seen
    /\ \A p \in NormPairs :
           /\ Count(writeAttempts, p[1], p[2]) <= 1
           /\ Count(observed, p[1], p[2]) <= 1
    /\ (AllIdle /\ eObserver /\ eEventPath) => observed = writeAttempts

\* the pair ("web", "x") was emitted twice; its write failed and its observer
\* call raised, both once; the second emit was suppressed
C39_Witness ==
    /\ AllIdle
    /\ emitCalls[<<"web", "x">>] + emitCalls[<<"Web ", "x">>] >= 2
    /\ <<"web", "x">> \in seen
    /\ Count(writeAttempts, "web", "x") = 1
    /\ Count(eventLog, "web", "x") = 0
    /\ Count(observed, "web", "x") = 1
    /\ Count(delivered, "web", "x") = 0

(***************************************************************************)
(* Properties of a run over the default module chain                       *)
(***************************************************************************)
\* no port of the target is reachable and no source knows a subdomain
NothingToFind == fEnv.subs = {} /\ fEnv.base = {} /\ fEnv.web = {}

\* C34: a run of the default module chain against a target with no reachable
\* port and no discoverable subdomain completes; no unit raises, whatever
\* upstream data it misses; the findings list is empty, the extension map has
\* no module-error entry, and load_state returns the snapshot the run saved.
C34_EmptyTargetRunsClean ==
    NothingToFind =>
        /\ fErrors = <<>>
        /\ fCtx.findings = <<>>
        /\ "module_errors" \notin fCtx.extra
        /\ fPc = "layers" => ENABLED NextChain
        /\ fPc = "loaded" =>
               /\ fDone = ChainUnits
               /\ fLoad.kind = "return"
               /\ fLoad.value # EmptyState
               /\ fLoad.value = ChainState(fCtx, fDone)

C34_Witness ==
    /\ NothingToFind
    /\ fEnv.ip /\ fEnv.nuclei /\ ~fEnv.fsOk
    /\ fPc = "loaded"
    /\ fDone = ChainUnits
    /\ fCtx.nuclei_raw = "No HTTP services discovered for Nuclei scan."
    /\ fLoad.value # EmptyState

====
